---- MODULE Spec2Model ----
(***************************************************************************)
(* A model of the PST/OST export pipeline of ost-pst-viewer:               *)
(*   - EmailProcessor.extract_messages / load_emails (folder traversal),   *)
(*   - EmailProcessor.process_emails and the process_emails function of    *)
(*     pst-exporter.py (the two orchestrators),                            *)
(*   - EmailProcessor.save_as_eml / save_as_pdf and                        *)
(*     FileSaver.save_attachment / _create_full_path (the writers).        *)
(*                                                                         *)
(* Text is a sequence of one-character strings, so that joining, slicing,  *)
(* stripping and character removal are computed the way the code computes  *)
(* them.  An attribute of a pypff object is a value, no value, or raises   *)
(* when it is read (as the code itself expects of number_of_attachments).  *)
(***************************************************************************)
EXTENDS Integers, Sequences, FiniteSets, TLC

(***************************************************************************)
(* Bounds of the model.                                                    *)
(***************************************************************************)
MaxFolders == 3      \* folders of a container, the root included
MaxMsgs == 2         \* messages directly in one folder
MaxAtt == 2          \* attachments reported by one message
MaxTail == 2         \* free characters of an enumerated subject
MaxBytes == 4        \* bytes of an enumerated body
MaxLines == 100      \* lines of a body drawn into a PDF
MaxCalls == 3        \* calls made on one FileSaver
MaxLoads == 2        \* load_emails calls on one EmailProcessor

(***************************************************************************)
(* Attribute values of the pypff objects.  A text attribute is a text,     *)
(* None (no value) or Raises (reading it raises an exception); the two are *)
(* one-element sequences no text equals, a text being made of              *)
(* one-character strings.  Likewise for times and counts.                  *)
(***************************************************************************)
None == <<"None">>

Raises == <<"Raises">>

NoTime == [y |-> 0, m |-> 0, d |-> 0, h |-> 0]

RaisesCount == 0 - 1

(***************************************************************************)
(* Text helpers.                                                           *)
(***************************************************************************)
Sep == "/"

StartsWith(s, c) == Len(s) > 0 /\ s[1] = c

EndsWith(s, c) == Len(s) > 0 /\ s[Len(s)] = c

Min(a, b) == IF a < b THEN a ELSE b

\* s[:n]
Slice(s, n) == SubSeq(s, 1, Min(n, Len(s)))

RECURSIVE SortedSeq(_)
SortedSeq(S) ==
  IF S = {} THEN <<>>
  ELSE LET m == CHOOSE x \in S : \A y \in S : x <= y
       IN <<m>> \o SortedSeq(S \ {m})

\* re.sub(<class Bad>, "", s)
RemoveChars(s, Bad) ==
  LET Kept(c) == c \notin Bad
  IN SelectSeq(s, Kept)

RECURSIVE LStrip(_, _)
LStrip(s, W) == IF s # <<>> /\ Head(s) \in W THEN LStrip(Tail(s), W) ELSE s

RECURSIVE RStrip(_, _)
RStrip(s, W) ==
  IF s # <<>> /\ s[Len(s)] \in W THEN RStrip(SubSeq(s, 1, Len(s) - 1), W) ELSE s

\* s.strip() and s.strip(chars)
Strip(s, W) == RStrip(LStrip(s, W), W)

\* os.path.join(a, b)
PathJoin(a, b) ==
  IF StartsWith(b, Sep) THEN b
  ELSE IF a = <<>> \/ EndsWith(a, Sep) THEN a \o b
       ELSE a \o <<Sep>> \o b

\* all texts over alphabet A of length at most n
RECURSIVE Texts(_, _)
Texts(A, n) ==
  IF n = 0 THEN {<<>>}
  ELSE LET T == Texts(A, n - 1)
       IN T \cup {Append(t, c) : t \in T, c \in A}

\* the text of n characters c
Repeat(c, n) == [k \in 1 .. n |-> c]

(***************************************************************************)
(* The state.                                                              *)
(***************************************************************************)
VARIABLES
  tree,        \* the container: [n, parent, name, nmsgs]; folder 0 is the root
  attr,        \* the attributes of each message of the container
  call,        \* the entry point: "load_emails", "class", "script", "names"
  input,       \* the input path: [exists, path]
  fmt,         \* output_format: "eml", "pdf", "both"
  dry_run,     \* the dry_run flag
  pc,          \* position in the running call
  pst,         \* the pypff file: "new", "open", "closed"
  opens,       \* how many times the container was opened
  stack,       \* call stack of extract_messages: frames [folder, path, i, j]
  emails,      \* self.emails
  returned,    \* what load_emails returned (empty before it returns)
  idx,         \* position of the loop over emails (1-based)
  folder,      \* full_folder_path of the current item
  attI,        \* position of the loop over the attachments (0-based)
  processed,   \* the counter "processed"
  fileSaver,   \* whether FileSaver(output_dir) was instantiated
  dirs,        \* directories on disk
  files,       \* files on disk: records [dir, name, owner, kind]
  printed,     \* file names printed by the dry-run preview
  result,      \* outcome of the call: "none", "True", "False", or "raised"
               \* (an exception left the call)
  attempted,   \* history: the items whose export was started, in order
  failed,      \* history: the items whose export raised
  counted,     \* history: the items counted as processed
  attTried,    \* history: per item, the attachment indexes tried, in order
  out          \* what a writer or a helper applied on its own produced

cfgVars == <<tree, attr, call, input, fmt, dry_run>>
loadVars == <<pst, opens, stack, emails, returned>>
loopVars == <<idx, folder, attI, processed, fileSaver>>
diskVars == <<dirs, files>>
histVars == <<attempted, failed, counted, attTried>>
vars == <<cfgVars, loadVars, loopVars, diskVars, histVars, pc, printed, result, out>>

(***************************************************************************)
(* The container (pypff folder objects).                                   *)
(***************************************************************************)
UnnamedFolder ==
  <<"U", "n", "n", "a", "m", "e", "d", " ", "F", "o", "l", "d", "e", "r">>

Folders == 0 .. tree.n - 1

number_of_sub_messages(f) == tree.nmsgs[f]

SubFolders(f) == SortedSeq({g \in Folders : g > 0 /\ tree.parent[g] = f})

number_of_sub_folders(f) == Len(SubFolders(f))

get_sub_folder(f, j) == SubFolders(f)[j]

get_sub_message(f, i) == <<f, i>>

Messages(t) == {m \in (0 .. t.n - 1) \X (1 .. MaxMsgs) : m[2] <= t.nmsgs[m[1]]}

(***************************************************************************)
(* load_emails and extract_messages.  The recursion of extract_messages    *)
(* is the explicit stack; the top frame is the last element.               *)
(***************************************************************************)
Top == stack[Len(stack)]

SetTop(fr) == [stack EXCEPT ![Len(stack)] = fr]

\* pst_file.open(self.file_path); root_folder = pst_file.get_root_folder();
\* the call self.extract_messages(root_folder)
OpenPst ==
  /\ pc = "load"
  /\ pst' = "open"
  /\ opens' = opens + 1
  /\ stack' = <<[folder |-> 0, path |-> <<>>, i |-> 1, j |-> 1]>>
  /\ pc' = "extract"
  /\ UNCHANGED <<cfgVars, out, emails, returned, loopVars, diskVars, histVars, printed, result>>

MessagesDone(fr) == fr.i > number_of_sub_messages(fr.folder)

\* the first loop of extract_messages: one iteration
ExtractMessage ==
  /\ pc = "extract"
  /\ stack # <<>>
  /\ ~ MessagesDone(Top)
  /\ emails' = Append(emails, [message |-> get_sub_message(Top.folder, Top.i),
                               folder_path |-> Top.path])
  /\ stack' = SetTop([Top EXCEPT !.i = Top.i + 1])
  /\ UNCHANGED <<cfgVars, out, pst, opens, returned, loopVars, diskVars, histVars, pc, printed, result>>

\* sub_folder.name or "Unnamed Folder"
sub_folder_name(g) ==
  IF tree.name[g] = None \/ tree.name[g] = <<>> THEN UnnamedFolder ELSE tree.name[g]

\* os.path.join(folder_path, sub_folder_name)
SubFolderPath(path, g) == PathJoin(path, sub_folder_name(g))

SubFolderAtReversed(f, j) == get_sub_folder(f, number_of_sub_folders(f) + 1 - j)

\* the order in which the second loop visits the subfolders
SubFolderAt(f, j) == get_sub_folder(f, j)

\* the second loop of extract_messages: the recursive call for one subfolder
EnterSubFolder ==
  /\ pc = "extract"
  /\ stack # <<>>
  /\ MessagesDone(Top)
  /\ Top.j <= number_of_sub_folders(Top.folder)
  /\ LET g == SubFolderAt(Top.folder, Top.j)
     IN stack' = Append(SetTop([Top EXCEPT !.j = Top.j + 1]),
                        [folder |-> g, path |-> SubFolderPath(Top.path, g),
                         i |-> 1, j |-> 1])
  /\ UNCHANGED <<cfgVars, out, pst, opens, emails, returned, loopVars, diskVars, histVars, pc, printed, result>>

\* extract_messages returns to its caller
ReturnFromFolder ==
  /\ pc = "extract"
  /\ stack # <<>>
  /\ MessagesDone(Top)
  /\ Top.j > number_of_sub_folders(Top.folder)
  /\ stack' = SubSeq(stack, 1, Len(stack) - 1)
  /\ UNCHANGED <<cfgVars, out, pst, opens, emails, returned, loopVars, diskVars, histVars, pc, printed, result>>

ClosePstLeavesOpen ==
  /\ pc = "extract"
  /\ stack = <<>>
  /\ pst' = "open"
  /\ returned' = emails
  /\ pc' = IF call = "load_emails" THEN "done" ELSE "loaded"
  /\ result' = IF call = "load_emails" THEN "True" ELSE result
  /\ UNCHANGED <<cfgVars, out, opens, stack, emails, loopVars, diskVars, histVars, printed>>

\* pst_file.close(); return self.emails
ClosePst ==
  /\ pc = "extract"
  /\ stack = <<>>
  /\ pst' = "closed"
  /\ returned' = emails
  /\ pc' = IF call = "load_emails" THEN "done" ELSE "loaded"
  /\ result' = IF call = "load_emails" THEN "True" ELSE result
  /\ UNCHANGED <<cfgVars, out, opens, stack, emails, loopVars, diskVars, histVars, printed>>

\* pypff raises while the container is opened or read: load_emails has no
\* handler, so the exception leaves it (and the container is not closed);
\* inside process_emails it reaches the outer handler
LoadRaises ==
  /\ pc \in {"load", "extract"}
  /\ pc = "extract" => stack # <<>>
  /\ pc' = IF call = "load_emails" THEN "done" ELSE "outer_except"
  /\ result' = IF call = "load_emails" THEN "raised" ELSE result
  /\ UNCHANGED <<cfgVars, out, loadVars, loopVars, diskVars, histVars, printed>>

\* load_emails called again on the same EmailProcessor: a new pypff.file(),
\* and self.emails as the call before left it; out keeps what that call
\* returned and how it ended
LoadAgain ==
  /\ call = "load_emails"
  /\ pc = "done"
  /\ opens < MaxLoads
  /\ out' = [returned |-> returned, result |-> result]
  /\ pst' = "new"
  /\ pc' = "load"
  /\ result' = "none"
  /\ UNCHANGED <<cfgVars, opens, stack, emails, returned, loopVars, diskVars, histVars, printed>>

(***************************************************************************)
(* Dates and file names.                                                   *)
(***************************************************************************)
Digit(d) == <<"0", "1", "2", "3", "4", "5", "6", "7", "8", "9">>[d + 1]

\* an integer printed with w digits, zero-padded (%Y, %m, %d)
RECURSIVE Digits(_, _)
Digits(n, w) == IF w = 0 THEN <<>> ELSE Digits(n \div 10, w - 1) \o <<Digit(n % 10)>>

\* t.strftime('%Y-%m-%d')
strftime(t) == Digits(t.y, 4) \o <<"-">> \o Digits(t.m, 2) \o <<"-">> \o Digits(t.d, 2)

\* datetime.now()
Now == [y |-> 2025, m |-> 7, d |-> 11, h |-> 9]

format_delivery_time_creation_first(e) ==
  IF e.creation_time # NoTime THEN <<"[">> \o strftime(e.creation_time) \o <<"]">>
  ELSE IF e.delivery_time # NoTime THEN <<"[">> \o strftime(e.delivery_time) \o <<"]">>
       ELSE <<"[">> \o strftime(Now) \o <<"]">>

\* _format_delivery_time: delivery_time, else creation_time, else now
format_delivery_time(e) ==
  IF e.delivery_time # NoTime THEN <<"[">> \o strftime(e.delivery_time) \o <<"]">>
  ELSE IF e.creation_time # NoTime THEN <<"[">> \o strftime(e.creation_time) \o <<"]">>
       ELSE <<"[">> \o strftime(Now) \o <<"]">>

\* the character class [<>:"/\\|?*\x00-\x1f]
InvalidChars == {"<", ">", ":", "\"", "/", "\\", "|", "?", "*", "\t", "\n"}

\* what str.strip() removes
Whitespace == {" ", "\t", "\n"}

SubjectLimit == 50

no_subject == <<"n", "o", "_", "s", "u", "b", "j", "e", "c", "t">>

\* email.subject or "no_subject"
SubjectOr(subject, default) ==
  IF subject = None \/ subject = <<>> THEN default ELSE subject

clean_subject_strip_first(subject) ==
  Slice(Strip(RemoveChars(SubjectOr(subject, no_subject), InvalidChars), Whitespace),
        SubjectLimit)

\* clean_subject[:50].strip() of save_as_eml / save_as_pdf
clean_subject(subject) ==
  Strip(Slice(RemoveChars(SubjectOr(subject, no_subject), InvalidChars), SubjectLimit),
        Whitespace)

Ext(kind) == IF kind = "eml" THEN <<".", "e", "m", "l">> ELSE <<".", "p", "d", "f">>

\* file_name of save_as_eml / save_as_pdf
file_name(e, kind) ==
  format_delivery_time(e) \o <<" ", "-", " ">> \o clean_subject(e.subject) \o Ext(kind)

\* clean_subject of the dry-run preview
preview_subject(subject) ==
  Strip(Slice(SubjectOr(subject, no_subject), SubjectLimit), Whitespace)

\* the file name printed by the dry-run preview
preview_name(e, kind) ==
  format_delivery_time(e) \o <<" ", "-", " ">> \o preview_subject(e.subject) \o Ext(kind)

Formats(f) == IF f = "both" THEN <<"eml", "pdf">> ELSE <<f>>

(***************************************************************************)
(* Input validation.                                                       *)
(***************************************************************************)
Lower(c) ==
  IF c = "P" THEN "p" ELSE IF c = "S" THEN "s" ELSE IF c = "T" THEN "t"
  ELSE IF c = "O" THEN "o" ELSE c

\* s.lower()
LowerText(s) == [k \in 1 .. Len(s) |-> Lower(s[k])]

\* the position of the last "." of s, 0 when there is none
LastDot(s) ==
  IF \E k \in 1 .. Len(s) : s[k] = "." 
  THEN CHOOSE k \in 1 .. Len(s) : s[k] = "." /\ \A l \in k + 1 .. Len(s) : s[l] # "."
  ELSE 0

\* os.path.splitext(p)[1] for a path without directories: the extension
\* starts at the last dot, unless only dots precede it
splitext(p) ==
  LET k == LastDot(p)
  IN IF k > 0 /\ \E l \in 1 .. k - 1 : p[l] # "." THEN SubSeq(p, k, Len(p)) ELSE <<>>

pst_ext == <<".", "p", "s", "t">>

ost_ext == <<".", "o", "s", "t">>

validate_pst_file_no_ext(inp) == inp.path # <<>> /\ inp.exists

\* PSTProcessor.validate_pst_file
validate_pst_file(inp) ==
  /\ inp.path # <<>>
  /\ inp.exists
  /\ LowerText(splitext(inp.path)) \in {pst_ext, ost_ext}

\* the validation of process_emails in pst-exporter.py: a wrong extension
\* only prints a warning
script_validate(inp) == inp.exists

InputValid == IF call = "class" THEN validate_pst_file(input) ELSE script_validate(input)

(***************************************************************************)
(* process_emails: validation, output root, loading.                       *)
(***************************************************************************)
OutputDir == <<"o">>

\* the validation at the head of process_emails
Validate ==
  /\ pc = "start"
  /\ IF InputValid
     THEN pc' = "mkroot" /\ result' = result
     ELSE pc' = "done" /\ result' = "False"
  /\ UNCHANGED <<cfgVars, out, loadVars, loopVars, diskVars, histVars, printed>>

CreatesRootAlways == TRUE

\* whether process_emails creates the output root
CreatesRoot == ~ dry_run

\* output_path.mkdir(parents=True, exist_ok=True), outside every try block:
\* when it raises, the exception leaves process_emails
MkRoot ==
  /\ pc = "mkroot"
  /\ IF CreatesRoot
     THEN \E ok \in BOOLEAN :
            IF ok
            THEN dirs' = dirs \cup {OutputDir} /\ pc' = "load" /\ result' = result
            ELSE dirs' = dirs /\ pc' = "done" /\ result' = "raised"
     ELSE dirs' = dirs /\ pc' = "load" /\ result' = result
  /\ UNCHANGED <<cfgVars, out, loadVars, loopVars, files, histVars, printed>>

\* the outer "except Exception": print the error, return False
OuterExcept ==
  /\ pc = "outer_except"
  /\ pc' = "done"
  /\ result' = "False"
  /\ UNCHANGED <<cfgVars, out, loadVars, loopVars, diskVars, histVars, printed>>

(***************************************************************************)
(* process_emails: the dry-run preview.                                    *)
(***************************************************************************)
PreviewLimit == 10

Message(k) == attr[emails[k].message]

\* one iteration of the loop over emails[:10]; reading email.subject may
\* raise, which the outer handler catches
PreviewItem ==
  /\ pc = "loaded"
  /\ dry_run
  /\ idx <= Min(Len(emails), PreviewLimit)
  /\ IF Message(idx).subject = Raises
     THEN pc' = "outer_except" /\ UNCHANGED <<idx, printed>>
     ELSE /\ printed' = printed \o
               [f \in 1 .. Len(Formats(fmt)) |->
                  [item |-> idx, name |-> preview_name(Message(idx), Formats(fmt)[f])]]
          /\ idx' = idx + 1
          /\ pc' = pc
  /\ UNCHANGED <<cfgVars, out, loadVars, folder, attI, processed, fileSaver, diskVars,
                 histVars, result>>

DryRunResult == "True"

\* the end of the preview: return True
PreviewDone ==
  /\ pc = "loaded"
  /\ dry_run
  /\ idx > Min(Len(emails), PreviewLimit)
  /\ pc' = "done"
  /\ result' = DryRunResult
  /\ UNCHANGED <<cfgVars, out, loadVars, loopVars, diskVars, histVars, printed>>

(***************************************************************************)
(* The disk.  A directory is its path without trailing separators; a file  *)
(* is [dir, name, owner, kind, complete], at most one per (dir, name);      *)
(* complete is FALSE when the writer raised after the file was opened.     *)
(***************************************************************************)
NormDir(p) == IF Len(p) > 1 THEN RStrip(p, {Sep}) ELSE p

\* the directories os.makedirs(p, exist_ok=True) leaves on disk
MakeDirs(p) ==
  {NormDir(p)} \cup {SubSeq(p, 1, k - 1) : k \in {l \in 2 .. Len(p) : p[l] = Sep /\ p[l - 1] # Sep}}

FileAt(fs, d, n) == {f \in fs : f.dir = NormDir(d) /\ f.name = n}

\* open(path, "w") followed by the writes: an existing file is replaced
WriteFile(fs, d, n, o, k, c) ==
  (fs \ FileAt(fs, d, n)) \cup
    {[dir |-> NormDir(d), name |-> n, owner |-> o, kind |-> k, complete |-> c]}

\* os.path.exists(os.path.join(d, n))
PathExists(d, n) == FileAt(files, d, n) # {} \/ NormDir(PathJoin(d, n)) \in dirs

(***************************************************************************)
(* FileSaver: _create_full_path, _sanitize_filename, _get_unique_filename, *)
(* save_attachment.                                                        *)
(***************************************************************************)
\* full_path of _create_full_path
create_full_path(folder_path) == PathJoin(OutputDir, folder_path)

FileNameLimit == 200

unnamed_file == <<"u", "n", "n", "a", "m", "e", "d", "_", "f", "i", "l", "e">>

\* _sanitize_filename(filename, max_length)
sanitize_filename_max(filename, max_length) ==
  IF filename = <<>> THEN unnamed_file
  ELSE LET stripped == Strip(RemoveChars(filename, InvalidChars), {" ", "."})
           cut == Slice(stripped, max_length)
       IN IF cut = <<>> THEN unnamed_file ELSE cut

\* _sanitize_filename(filename) with the default max_length = 200
sanitize_filename(filename) == sanitize_filename_max(filename, FileNameLimit)

\* "_{counter}" for a counter below 100
CounterSuffix(k) == <<"_">> \o (IF k < 10 THEN Digits(k, 1) ELSE Digits(k, 2))

\* the name _get_unique_filename settles on: base.ext when free, else the
\* first base_k.ext, k = 1, 2, ..., that is free
get_unique_filename(d, base, ext) ==
  IF ~ PathExists(d, base \o <<".">> \o ext) THEN base \o <<".">> \o ext
  ELSE LET k == CHOOSE c \in 1 .. Cardinality(files) + Cardinality(dirs) + 1 :
                  /\ ~ PathExists(d, base \o CounterSuffix(c) \o <<".">> \o ext)
                  /\ \A b \in 1 .. c - 1 :
                       PathExists(d, base \o CounterSuffix(b) \o <<".">> \o ext)
       IN base \o CounterSuffix(k) \o <<".">> \o ext

\* f"attachment_{id(attachment)}"
SyntheticName(id) ==
  <<"a", "t", "t", "a", "c", "h", "m", "e", "n", "t", "_">> \o Digits(id, 1)

bin == <<"b", "i", "n">>

\* the file name save_attachment writes to
attachment_file_name(att, id, d) ==
  LET raw_name == IF att.name = None \/ att.name = <<>> THEN SyntheticName(id) ELSE att.name
      sanitized_name == sanitize_filename(raw_name)
      k == LastDot(sanitized_name)
      base_name == IF k > 0 THEN SubSeq(sanitized_name, 1, k - 1) ELSE sanitized_name
      extension == IF k > 0 THEN SubSeq(sanitized_name, k + 1, Len(sanitized_name)) ELSE bin
  IN get_unique_filename(d, base_name, extension)

\* how writing a file ends: the file is written, open() raises, or a write
\* raises after open() created or truncated the file
WriteOutcomes == {"ok", "open_raises", "write_raises"}

\* save_attachment: "written" when the payload reached the disk, "empty"
\* when read_buffer gave nothing, "caught" when an exception was caught and
\* reported, "raised" when the handler itself raised on attachment.name
save_attachment_outcome(att, w) ==
  IF att.name = Raises THEN "raised"
  ELSE IF att.data = Raises THEN "caught"
  ELSE IF att.data = <<>> THEN "empty"
  ELSE IF w = "ok" THEN "written" ELSE "caught"

\* the disk after save_attachment(att, d)
save_attachment(att, id, d, owner, w) ==
  IF att.name = Raises \/ att.data = Raises \/ att.data = <<>> \/ w = "open_raises"
  THEN files
  ELSE WriteFile(files, d, attachment_file_name(att, id, d), owner, "att", w = "ok")

(***************************************************************************)
(* process_emails: the export loop.                                        *)
(***************************************************************************)
\* file_saver = FileSaver(output_dir); processed = 0
StartExport ==
  /\ pc = "loaded"
  /\ ~ dry_run
  /\ fileSaver' = TRUE
  /\ processed' = 0
  /\ pc' = "item"
  /\ UNCHANGED <<cfgVars, out, loadVars, idx, folder, attI, diskVars, histVars, printed, result>>

FirstStage == IF fmt \in {"eml", "both"} THEN "eml" ELSE "pdf"

\* full_folder_path = file_saver._create_full_path(folder_path); it prints
\* and re-raises when os.makedirs fails
CreateFullPath ==
  /\ pc = "item"
  /\ idx <= Len(emails)
  /\ attempted' = Append(attempted, idx)
  /\ \E ok \in BOOLEAN :
       IF ok
       THEN /\ folder' = create_full_path(emails[idx].folder_path)
            /\ dirs' = dirs \cup MakeDirs(folder')
            /\ pc' = FirstStage
       ELSE /\ pc' = "handler"
            /\ UNCHANGED <<folder, dirs>>
  /\ UNCHANGED <<cfgVars, out, loadVars, idx, attI, processed, fileSaver, files,
                 failed, counted, attTried, printed, result>>

\* the file save_as_eml / save_as_pdf opens for writing
TargetName(e, kind) == file_name(e, kind)

\* save_as_eml / save_as_pdf for the current item: the disk afterwards
SaveAs(kind, complete) ==
  WriteFile(files, folder, TargetName(Message(idx), kind), idx, kind, complete)

\* self.save_as_eml(email, full_folder_path): reading email.subject raises
\* before the file is opened; open() or a later write may raise
SaveAsEml ==
  /\ pc = "eml"
  /\ \E w \in WriteOutcomes :
       IF Message(idx).subject = Raises \/ w = "open_raises"
       THEN /\ pc' = "handler"
            /\ files' = files
       ELSE /\ files' = SaveAs("eml", w = "ok")
            /\ pc' = IF w # "ok" THEN "handler"
                     ELSE IF fmt = "both" THEN "pdf" ELSE "atts"
  /\ UNCHANGED <<cfgVars, out, loadVars, loopVars, dirs, histVars, printed, result>>

\* self.save_as_pdf(email, full_folder_path): the canvas writes the file
\* in c.save(), the last statement
SaveAsPdf ==
  /\ pc = "pdf"
  /\ \E w \in WriteOutcomes :
       IF Message(idx).subject = Raises \/ w = "open_raises"
       THEN /\ pc' = "handler"
            /\ files' = files
       ELSE /\ files' = SaveAs("pdf", w = "ok")
            /\ pc' = IF w # "ok" THEN "handler" ELSE "atts"
  /\ UNCHANGED <<cfgVars, out, loadVars, loopVars, dirs, histVars, printed, result>>

attachments == <<"a", "t", "t", "a", "c", "h", "m", "e", "n", "t", "s">>

attachments_folder == PathJoin(folder, attachments)

\* id(attachment): the address of the object, which a later object may reuse
AttachmentIds == {7, 8}

\* email.get_attachment(i)
get_attachment(e, i) == e.attachments[i + 1]

\* num_attachments = email.number_of_attachments; os.makedirs(attachments_folder);
\* whatever raises here is passed over silently
CheckAttachments ==
  /\ pc = "atts"
  /\ LET n == Message(idx).number_of_attachments
     IN IF n = RaisesCount \/ n = 0
        THEN /\ pc' = "count"
             /\ UNCHANGED <<dirs, attI, attTried>>
        ELSE \E ok \in BOOLEAN :
               IF ok
               THEN /\ dirs' = dirs \cup MakeDirs(attachments_folder)
                    /\ attI' = 0
                    /\ attTried' = (idx :> <<>>) @@ attTried
                    /\ pc' = "att"
               ELSE /\ pc' = "count"
                    /\ UNCHANGED <<dirs, attI, attTried>>
  /\ UNCHANGED <<cfgVars, out, loadVars, idx, folder, processed, fileSaver, files,
                 attempted, failed, counted, printed, result>>

AfterAttachmentEscapes(outcome) ==
  IF outcome = "raised" THEN "handler"
  ELSE IF attI + 1 < Message(idx).number_of_attachments THEN "att" ELSE "count"

\* where the loop over the attachments goes after one iteration, whatever
\* the iteration's outcome
AfterAttachment(outcome) ==
  IF attI + 1 < Message(idx).number_of_attachments THEN "att" ELSE "count"

\* one iteration of the loop over range(num_attachments): get_attachment(i),
\* which raises for an attachment whose "gets" is FALSE, and save_attachment;
\* an exception of either is caught and printed
SaveAttachment ==
  /\ pc = "att"
  /\ attI < Message(idx).number_of_attachments
  /\ attTried' = [attTried EXCEPT ![idx] = Append(@, attI)]
  /\ \E id \in AttachmentIds, w \in WriteOutcomes :
       LET got == get_attachment(Message(idx), attI)
       IN IF ~ got.gets
          THEN /\ files' = files
               /\ pc' = AfterAttachment("raised")
          ELSE /\ files' = save_attachment(got, id, attachments_folder, <<idx, attI>>, w)
               /\ pc' = AfterAttachment(save_attachment_outcome(got, w))
  /\ attI' = attI + 1
  /\ UNCHANGED <<cfgVars, out, loadVars, idx, folder, processed, fileSaver, dirs,
                 attempted, failed, counted, printed, result>>

\* processed += 1, and on to the next item
CountProcessed ==
  /\ pc = "count"
  /\ processed' = processed + 1
  /\ counted' = counted \cup {idx}
  /\ idx' = idx + 1
  /\ pc' = "item"
  /\ UNCHANGED <<cfgVars, out, loadVars, folder, attI, fileSaver, diskVars,
                 attempted, failed, attTried, printed, result>>

\* whether the per-item handler completes: its message reads email.subject
HandlerCompletes(e) == e.subject # Raises

ItemHandlerCounts ==
  /\ pc = "handler"
  /\ failed' = failed \cup {idx}
  /\ processed' = processed + 1
  /\ IF HandlerCompletes(Message(idx))
     THEN idx' = idx + 1 /\ pc' = "item"
     ELSE idx' = idx /\ pc' = "outer_except"
  /\ UNCHANGED <<cfgVars, out, loadVars, folder, attI, fileSaver, diskVars,
                 attempted, counted, attTried, printed, result>>

\* the per-item "except Exception": print the subject and continue; when
\* reading the subject raises, the exception leaves the loop
ItemHandler ==
  /\ pc = "handler"
  /\ failed' = failed \cup {idx}
  /\ IF HandlerCompletes(Message(idx))
     THEN idx' = idx + 1 /\ pc' = "item"
     ELSE idx' = idx /\ pc' = "outer_except"
  /\ UNCHANGED <<cfgVars, out, loadVars, folder, attI, processed, fileSaver, diskVars,
                 attempted, counted, attTried, printed, result>>

\* the value process_emails returns after the loop
SummaryResult == "True"

\* the final summary: print the count, return True
Summary ==
  /\ pc = "item"
  /\ idx > Len(emails)
  /\ pc' = "done"
  /\ result' = SummaryResult
  /\ UNCHANGED <<cfgVars, out, loadVars, loopVars, diskVars, histVars, printed>>

(***************************************************************************)
(* The file names of one message, computed outside a run: the preview's    *)
(* and the writers'.                                                       *)
(***************************************************************************)
\* the names the dry-run preview prints for the message
ApplyPreview ==
  /\ pc = "names"
  /\ printed = <<>>
  /\ printed' = [f \in 1 .. Len(Formats(fmt)) |->
                   [item |-> idx, name |-> preview_name(Message(idx), Formats(fmt)[f])]]
  /\ UNCHANGED <<cfgVars, out, loadVars, loopVars, diskVars, histVars, pc, result>>

\* the files save_as_eml / save_as_pdf write for the message
ApplySave ==
  /\ pc = "names"
  /\ files = {}
  /\ files' = {[dir |-> NormDir(folder), name |-> TargetName(Message(idx), k),
                owner |-> idx, kind |-> k, complete |-> TRUE] : k \in {"eml", "pdf"} \cap
                                                                {Formats(fmt)[f] : f \in 1 .. Len(Formats(fmt))}}
  /\ UNCHANGED <<cfgVars, out, loadVars, loopVars, dirs, histVars, pc, printed, result>>

(***************************************************************************)
(* What the writers put into a file: header lines and body.  Here an       *)
(* attribute may also be Missing: the object has no such attribute, and    *)
(* reading it raises AttributeError.  transport_headers is a record        *)
(* [kind, lines]: kind is "missing", "none" (no value or the empty         *)
(* string), "unparsable" (message_from_string raises) or "text", and       *)
(* lines are the header lines [name, value] of the text.                   *)
(***************************************************************************)
Missing == <<"Missing">>

\* how an f-string prints a value
Str(v) == IF v = None THEN <<"N", "o", "n", "e">> ELSE v

\* v or default
ValueOr(v, default) == IF v = None \/ v = <<>> THEN default ELSE v

No_Subject == <<"N", "o", " ", "S", "u", "b", "j", "e", "c", "t">>

Unknown_Sender == <<"U", "n", "k", "n", "o", "w", "n", " ", "S", "e", "n", "d", "e", "r">>

Unknown_Email == <<"U", "n", "k", "n", "o", "w", "n", " ", "E", "m", "a", "i", "l">>

Unknown_Recipient ==
  <<"U", "n", "k", "n", "o", "w", "n", " ", "R", "e", "c", "i", "p", "i", "e", "n", "t">>

No_content_pdf ==
  <<"N", "o", " ", "c", "o", "n", "t", "e", "n", "t", " ", "a", "v", "a", "i", "l",
    "a", "b", "l", "e", " ", "f", "o", "r", " ", "t", "h", "i", "s", " ", "e", "m",
    "a", "i", "l", ".">>

No_content_fs ==
  <<"N", "o", " ", "c", "o", "n", "t", "e", "n", "t", " ", "a", "v", "a", "i", "l",
    "a", "b", "l", "e", ".">>

SubjectLine(t) == <<"S", "u", "b", "j", "e", "c", "t", ":", " ">> \o t

FromLine(t) == <<"F", "r", "o", "m", ":", " ">> \o t

ToLine(t) == <<"T", "o", ":", " ">> \o t

\* "{name} <{email}>"
NameAndEmail(name, mail) == name \o <<" ", "<">> \o mail \o <<">">>

\* ", ".join(list)
RECURSIVE Join(_)
Join(list) ==
  IF list = <<>> THEN <<>>
  ELSE IF Len(list) = 1 THEN list[1]
       ELSE list[1] \o <<",", " ">> \o Join(Tail(list))

\* msg.get_all(name, []): the values of the header lines of that name, in
\* the order of the text
RECURSIVE get_all(_, _)
get_all(lines, name) ==
  IF lines = <<>> THEN <<>>
  ELSE (IF Head(lines).name = name THEN <<Head(lines).value>> ELSE <<>>)
         \o get_all(Tail(lines), name)

\* [str(r) for r in list if r]
RECURSIVE Truthy(_)
Truthy(list) ==
  IF list = <<>> THEN <<>>
  ELSE (IF Head(list) # <<>> THEN <<Head(list)>> ELSE <<>>) \o Truthy(Tail(list))

\* transport_headers is truthy and message_from_string(transport_headers)
\* returns
Parses(h) == h.kind = "text"

\* all_recipients = to_recipients + cc_recipients + bcc_recipients; empty
\* when the headers are absent or parsing raised
all_recipients(h) ==
  IF Parses(h)
  THEN get_all(h.lines, "To") \o get_all(h.lines, "Cc") \o get_all(h.lines, "Bcc")
  ELSE <<>>

\* hasattr(email, "display_to") and email.display_to
has_display_to(e) == e.display_to \notin {Missing, None, <<>>}

\* recipient_list of EmailProcessor.save_as_eml
recipient_list(e) ==
  LET parsed == Truthy(all_recipients(e.transport_headers))
  IN IF parsed # <<>> THEN parsed
     ELSE IF has_display_to(e) THEN <<e.display_to>>
          ELSE <<Unknown_Recipient>>

\* to_field of EmailProcessor.save_as_pdf
to_field(e) ==
  LET h == e.transport_headers
      to_recipients == IF Parses(h) THEN get_all(h.lines, "To") ELSE <<>>
      joined == IF to_recipients # <<>> THEN Join(to_recipients) ELSE Unknown_Recipient
  IN IF joined = Unknown_Recipient /\ has_display_to(e) THEN e.display_to ELSE joined

\* recipient_list of FileSaver._save_as_eml
fs_recipient_list(e) == all_recipients(e.transport_headers)

\* sender of FileSaver._save_as_eml: msg.get("From", "Unknown Sender")
fs_sender(e) ==
  LET h == e.transport_headers
      from == IF Parses(h) THEN get_all(h.lines, "From") ELSE <<>>
  IN IF from # <<>> THEN from[1] ELSE Unknown_Sender

\* re.search(r"<(.+?)>", sender): the pairs (i, j) of a "<" at i and a ">"
\* at j with at least one character between them
AngleMatches(s) ==
  {p \in (1 .. Len(s)) \X (1 .. Len(s)) : s[p[1]] = "<" /\ s[p[2]] = ">" /\ p[2] >= p[1] + 2}

\* sender_email of FileSaver._save_as_eml
fs_sender_email(e) ==
  LET s == fs_sender(e)
      M == AngleMatches(s)
  IN IF ~ Parses(e.transport_headers) \/ M = {} THEN Unknown_Email
     ELSE LET i == CHOOSE a \in {p[1] : p \in M} : \A b \in {p[1] : p \in M} : a <= b
              j == CHOOSE a \in {p[2] : p \in {q \in M : q[1] = i}} :
                     \A b \in {p[2] : p \in {q \in M : q[1] = i}} : a <= b
          IN SubSeq(s, i + 1, j - 1)

\* reading "email.plain_text_body or email.html_body" raises AttributeError
BodyRaises(e) ==
  \/ e.plain_text_body = Missing
  \/ (e.plain_text_body \in {None, <<>>} /\ e.html_body = Missing)

\* email.plain_text_body or email.html_body or default
BodyOr(e, default) == ValueOr(ValueOr(e.plain_text_body, e.html_body), default)

\* what a writer did: state is "idle" (not called), "returned", "caught"
\* (an exception was caught and printed) or "raised" (an exception left the
\* writer); file is "none", "partial" or "complete"
Rendering(state, file, name, subject, from, to, recipients, body) ==
  [state |-> state, file |-> file, name |-> name, subject |-> subject,
   from |-> from, to |-> to, recipients |-> recipients, body |-> body]

Idle == Rendering("idle", "none", <<>>, <<>>, <<>>, <<>>, <<>>, <<>>)

RaisedBeforeOpen == Rendering("raised", "none", <<>>, <<>>, <<>>, <<>>, <<>>, <<>>)

\* EmailProcessor.save_as_eml(email, output_path): email.subject and the
\* body are read before the file is opened, email.sender_name after the
\* Subject line was written
save_as_eml(e) ==
  IF e.subject = Missing \/ BodyRaises(e) THEN RaisedBeforeOpen
  ELSE IF e.sender_name = Missing
       THEN Rendering("raised", "partial", file_name(e, "eml"),
                      SubjectLine(Str(e.subject)), <<>>, <<>>, recipient_list(e), <<>>)
       ELSE Rendering("returned", "complete", file_name(e, "eml"),
                      SubjectLine(Str(e.subject)), FromLine(Str(e.sender_name)),
                      ToLine(Join(recipient_list(e))), recipient_list(e),
                      BodyOr(e, <<>>))

\* EmailProcessor.save_as_pdf(email, output_path): the file is written by
\* c.save(), the last statement
save_as_pdf(e) ==
  IF \/ e.subject = Missing
     \/ BodyRaises(e)
     \/ e.sender_name = Missing
     \/ e.sender_email_address = Missing
  THEN RaisedBeforeOpen
  ELSE Rendering("returned", "complete", file_name(e, "pdf"),
                 SubjectLine(ValueOr(e.subject, No_Subject)),
                 FromLine(NameAndEmail(ValueOr(e.sender_name, Unknown_Sender),
                                       ValueOr(e.sender_email_address, Unknown_Email))),
                 ToLine(to_field(e)), <<to_field(e)>>, BodyOr(e, No_content_pdf))

eml_ext == <<"e", "m", "l">>

\* FileSaver._save_as_eml(email, folder_path) into directory d: every
\* exception is caught, and the handler prints email.subject
fs_save_as_eml(e, d) ==
  IF e.subject = Missing THEN RaisedBeforeOpen
  ELSE IF BodyRaises(e)
       THEN Rendering("caught", "none", <<>>, <<>>, <<>>, <<>>, fs_recipient_list(e), <<>>)
       ELSE Rendering("returned", "complete",
                      get_unique_filename(d, sanitize_filename(ValueOr(e.subject, No_Subject)), eml_ext),
                      SubjectLine(ValueOr(e.subject, No_Subject)),
                      FromLine(NameAndEmail(fs_sender(e), fs_sender_email(e))),
                      ToLine(Join(fs_recipient_list(e))), fs_recipient_list(e),
                      BodyOr(e, No_content_fs))

\* the disk after a writer ran for the message
Written(r, kind) ==
  IF r.file = "none" THEN files
  ELSE WriteFile(files, folder, r.name, idx, kind, r.file = "complete")

\* self.save_as_eml(email, output_path) on its own
RenderEml ==
  /\ pc = "render"
  /\ out.eml.state = "idle"
  /\ out' = [out EXCEPT !.eml = save_as_eml(Message(idx))]
  /\ files' = Written(out'.eml, "eml")
  /\ UNCHANGED <<cfgVars, loadVars, loopVars, dirs, histVars, pc, printed, result>>

\* self.save_as_pdf(email, output_path) on its own
RenderPdf ==
  /\ pc = "render"
  /\ out.pdf.state = "idle"
  /\ out' = [out EXCEPT !.pdf = save_as_pdf(Message(idx))]
  /\ files' = Written(out'.pdf, "pdf")
  /\ UNCHANGED <<cfgVars, loadVars, loopVars, dirs, histVars, pc, printed, result>>

\* FileSaver._save_as_eml(email, folder_path) on its own
FsRenderEml ==
  /\ pc = "render"
  /\ out.fs.state = "idle"
  /\ out' = [out EXCEPT !.fs = fs_save_as_eml(Message(idx), folder)]
  /\ files' = Written(out'.fs, "fs_eml")
  /\ UNCHANGED <<cfgVars, loadVars, loopVars, dirs, histVars, pc, printed, result>>

(***************************************************************************)
(* _decode_email_body.  A byte is a number 0 .. 255 and a decoded string   *)
(* is a sequence of code points.                                           *)
(***************************************************************************)
\* a codec raised UnicodeDecodeError
DecodeError == <<0 - 1>>

\* an exception left _decode_email_body
DecodeRaises == <<0 - 2>>

\* U+FFFD, which errors='replace' puts for undecodable bytes
Replacement == 65533

IsCont(x) == x >= 128 /\ x <= 191

\* the length of the UTF-8 sequence a lead byte announces, 0 for a byte
\* that cannot lead
Utf8Len(x) ==
  IF x < 128 THEN 1
  ELSE IF x >= 194 /\ x <= 223 THEN 2
  ELSE IF x >= 224 /\ x <= 239 THEN 3
  ELSE IF x >= 240 /\ x <= 244 THEN 4
  ELSE 0

\* whether y may follow the lead byte x (no overlong forms, no surrogates,
\* nothing above U+10FFFF)
SecondOk(x, y) ==
  /\ IsCont(y)
  /\ x = 224 => y >= 160
  /\ x = 237 => y <= 159
  /\ x = 240 => y >= 144
  /\ x = 244 => y <= 143

\* how many bytes from the start of b belong to a well-formed or truncated
\* sequence
RECURSIVE Utf8Prefix(_, _)
Utf8Prefix(b, k) ==
  IF k = 1 THEN (IF Utf8Len(b[1]) <= 1 THEN 1 ELSE Utf8Prefix(b, 2))
  ELSE IF k > Min(Len(b), Utf8Len(b[1])) THEN k - 1
  ELSE IF k = 2 THEN (IF SecondOk(b[1], b[2]) THEN Utf8Prefix(b, 3) ELSE 1)
  ELSE IF IsCont(b[k]) THEN Utf8Prefix(b, k + 1) ELSE k - 1

\* whether a complete well-formed sequence starts b
Utf8Valid(b) == Utf8Len(b[1]) > 0 /\ Utf8Prefix(b, 1) = Utf8Len(b[1])

\* the code point of the sequence that starts b
Utf8Point(b) ==
  LET n == Utf8Len(b[1])
  IN IF n = 1 THEN b[1]
     ELSE IF n = 2 THEN (b[1] - 192) * 64 + (b[2] - 128)
     ELSE IF n = 3 THEN (b[1] - 224) * 4096 + (b[2] - 128) * 64 + (b[3] - 128)
     ELSE (b[1] - 240) * 262144 + (b[2] - 128) * 4096 + (b[3] - 128) * 64 + (b[4] - 128)

\* the codec's answer for one more element: an error stays an error
Cons(point, rest) == IF rest = DecodeError THEN DecodeError ELSE <<point>> \o rest

\* b.decode('utf-8')
RECURSIVE utf_8(_)
utf_8(b) ==
  IF b = <<>> THEN <<>>
  ELSE IF ~ Utf8Valid(b) THEN DecodeError
  ELSE Cons(Utf8Point(b), utf_8(SubSeq(b, Utf8Len(b[1]) + 1, Len(b))))

\* b.decode('utf-8', errors='replace')
RECURSIVE utf_8_replace(_)
utf_8_replace(b) ==
  IF b = <<>> THEN <<>>
  ELSE IF Utf8Valid(b)
       THEN <<Utf8Point(b)>> \o utf_8_replace(SubSeq(b, Utf8Len(b[1]) + 1, Len(b)))
       ELSE <<Replacement>> \o utf_8_replace(SubSeq(b, Utf8Prefix(b, 1) + 1, Len(b)))

\* b.decode('latin-1') and s.encode('latin-1') of what it gave: byte x is
\* code point x
latin_1(b) == b

\* cp1252: the code points of the bytes 128 .. 159, 0 where none is assigned
Cp1252High ==
  <<8364, 0, 8218, 402, 8222, 8230, 8224, 8225, 710, 8240, 352, 8249, 338, 0, 381, 0,
    0, 8216, 8217, 8220, 8221, 8226, 8211, 8212, 732, 8482, 353, 8250, 339, 0, 382, 376>>

\* b.decode('cp1252') and b.decode('windows-1252')
RECURSIVE cp1252(_)
cp1252(b) ==
  IF b = <<>> THEN <<>>
  ELSE LET x == b[1]
           p == IF x >= 128 /\ x <= 159 THEN Cp1252High[x - 127] ELSE x
       IN IF p = 0 /\ x # 0 THEN DecodeError ELSE Cons(p, cp1252(Tail(b)))

\* b.decode('iso-8859-15'): Latin-1 but for eight positions
Latin9Point(x) ==
  IF x = 164 THEN 8364 ELSE IF x = 166 THEN 352 ELSE IF x = 168 THEN 353
  ELSE IF x = 180 THEN 381 ELSE IF x = 184 THEN 382 ELSE IF x = 188 THEN 338
  ELSE IF x = 189 THEN 339 ELSE IF x = 190 THEN 376 ELSE x

iso_8859_15(b) == [k \in 1 .. Len(b) |-> Latin9Point(b[k])]

\* b.decode('ascii')
ascii(b) == IF \E k \in 1 .. Len(b) : b[k] >= 128 THEN DecodeError ELSE b

IsHighSurrogate(u) == u >= 55296 /\ u <= 56319

IsLowSurrogate(u) == u >= 56320 /\ u <= 57343

\* the decoding of 16-bit units
RECURSIVE Utf16Units(_)
Utf16Units(u) ==
  IF u = <<>> THEN <<>>
  ELSE IF IsLowSurrogate(u[1]) THEN DecodeError
  ELSE IF IsHighSurrogate(u[1])
       THEN IF Len(u) >= 2 /\ IsLowSurrogate(u[2])
            THEN Cons(65536 + (u[1] - 55296) * 1024 + (u[2] - 56320),
                      Utf16Units(SubSeq(u, 3, Len(u))))
            ELSE DecodeError
  ELSE Cons(u[1], Utf16Units(Tail(u)))

\* b.decode('utf-16le') (little = TRUE) and b.decode('utf-16be')
utf_16_ordered(b, little) ==
  IF Len(b) % 2 = 1 THEN DecodeError
  ELSE Utf16Units([k \in 1 .. Len(b) \div 2 |->
                     IF little THEN b[2 * k - 1] + 256 * b[2 * k]
                     ELSE 256 * b[2 * k - 1] + b[2 * k]])

\* b.decode('utf-16'): a byte order mark decides the order and is dropped;
\* without one the order is little-endian
utf_16(b) ==
  IF Len(b) >= 2 /\ b[1] = 255 /\ b[2] = 254 THEN utf_16_ordered(SubSeq(b, 3, Len(b)), TRUE)
  ELSE IF Len(b) >= 2 /\ b[1] = 254 /\ b[2] = 255
       THEN utf_16_ordered(SubSeq(b, 3, Len(b)), FALSE)
  ELSE utf_16_ordered(b, TRUE)

\* encodings_to_try
encodings_to_try ==
  <<"utf-8", "iso-8859-1", "windows-1252", "cp1252", "iso-8859-15",
    "utf-16", "utf-16le", "utf-16be", "ascii">>

\* body_bytes.decode(encoding)
decode(b, encoding) ==
  CASE encoding = "utf-8" -> utf_8(b)
    [] encoding = "iso-8859-1" -> latin_1(b)
    [] encoding \in {"windows-1252", "cp1252"} -> cp1252(b)
    [] encoding = "iso-8859-15" -> iso_8859_15(b)
    [] encoding = "utf-16" -> utf_16(b)
    [] encoding = "utf-16le" -> utf_16_ordered(b, TRUE)
    [] encoding = "utf-16be" -> utf_16_ordered(b, FALSE)
    [] encoding = "ascii" -> ascii(b)

\* t in s
Contains(s, t) == \E k \in 1 .. Len(s) - Len(t) + 1 : SubSeq(s, k, k + Len(t) - 1) = t

\* the seven sequences the double-encoding test looks for: "Ã" followed by
\* "§", "£", "¡", "©", a soft hyphen, "³" or "º"
RepairTellTales ==
  {<<195, 167>>, <<195, 163>>, <<195, 161>>, <<195, 169>>, <<195, 173>>,
   <<195, 179>>, <<195, 186>>}

\* the three sequences the validation of a UTF-8 decoding looks for
ValidationTellTales == {<<195, 167>>, <<195, 163>>, <<195, 161>>}

\* the double-encoding repair: the repaired text, or DecodeError when the
\* test finds nothing or the repair raises (which is caught)
Repair(b) ==
  LET temp_decoded == latin_1(b)
  IN IF \E t \in RepairTellTales : Contains(temp_decoded, t)
     THEN utf_8(latin_1(temp_decoded))
     ELSE DecodeError

\* the validation of a decoding in the loop
Rejected(encoding, decoded) ==
  encoding = "utf-8" /\ \E t \in ValidationTellTales : Contains(decoded, t)

RECURSIVE TryEncodings(_, _)
OnDecodeErrorEscapes(b, rest) == DecodeRaises

\* except (UnicodeDecodeError, UnicodeError): continue
OnDecodeError(b, rest) == TryEncodings(b, rest)

\* the loop over encodings_to_try, and after it the decoding with
\* errors='replace'
TryEncodings(b, encodings) ==
  IF encodings = <<>> THEN utf_8_replace(b)
  ELSE LET decoded == decode(b, Head(encodings))
       IN IF decoded = DecodeError THEN OnDecodeError(b, Tail(encodings))
          ELSE IF Rejected(Head(encodings), decoded) THEN TryEncodings(b, Tail(encodings))
          ELSE decoded

\* _decode_email_body(body_bytes) for bytes
decode_email_body(b) ==
  IF Repair(b) # DecodeError THEN Repair(b) ELSE TryEncodings(b, encodings_to_try)

\* _decode_email_body applied to the body of the message
DecodeBody ==
  /\ pc = "decode"
  /\ out' = decode_email_body(Message(idx).plain_text_body)
  /\ pc' = "done"
  /\ UNCHANGED <<cfgVars, loadVars, loopVars, diskVars, histVars, printed, result>>

\* f"[{datetime.now().strftime('%Y-%m-%d')}]"
NowPrefix == <<"[">> \o strftime(Now) \o <<"]">>

\* what a time attribute raises: nothing, or exception exc when it is read
\* (at = "read") or when its value is formatted (at = "format")
NoError == [at |-> "none", exc |-> "none"]

\* the exceptions the handler of _format_delivery_time catches
CaughtByFormat == {"AttributeError", "TypeError"}

\* getattr(email, name, None): an AttributeError of the read gives None
GetattrOrNone(value, raises) ==
  IF raises.at = "read" /\ raises.exc = "AttributeError" THEN NoTime ELSE value

\* the time attributes as getattr returns them
Effective(e) ==
  [delivery_time |-> GetattrOrNone(e.delivery_time, e.delivery_raises),
   creation_time |-> GetattrOrNone(e.creation_time, e.creation_raises)]

\* the exception raised inside the try block of _format_delivery_time,
\* "none" when it runs to a return
FirstError(e) ==
  LET eff == Effective(e)
      read(r) == r.at = "read" /\ r.exc # "AttributeError"
  IN IF read(e.delivery_raises) THEN e.delivery_raises.exc
     ELSE IF eff.delivery_time # NoTime
          THEN (IF e.delivery_raises.at = "format" THEN e.delivery_raises.exc ELSE "none")
     ELSE IF read(e.creation_raises) THEN e.creation_raises.exc
     ELSE IF eff.creation_time # NoTime
          THEN (IF e.creation_raises.at = "format" THEN e.creation_raises.exc ELSE "none")
     ELSE "none"

\* _format_delivery_time(email) with its handler: the prefix, or Raises
\* when an exception leaves it
try_format_delivery_time(e) ==
  IF FirstError(e) = "none" THEN format_delivery_time(Effective(e))
  ELSE IF FirstError(e) \in CaughtByFormat THEN NowPrefix
       ELSE Raises

\* _format_delivery_time applied to the message
FormatDeliveryTime ==
  /\ pc = "format"
  /\ out' = try_format_delivery_time(Message(idx))
  /\ pc' = "done"
  /\ UNCHANGED <<cfgVars, loadVars, loopVars, diskVars, histVars, printed, result>>

(***************************************************************************)
(* save_as_pdf: the body loop.  The canvas is the list of the lines drawn, *)
(* each with its page and its y position, the number of showPage calls and *)
(* the font in force.                                                      *)
(***************************************************************************)
\* y_position = 690
BodyTop == 690

\* line_height = 14
LineHeight == 14

\* the bound of the test y_position < 50
PageFloor == 50

\* y_position = 750 after a page break
PageTop == 750

NeedsPageAtFloor(y) == y <= PageFloor

\* if y_position < 50
NeedsPage(y) == y < PageFloor

\* the canvas after the headers were drawn, with the lines of
\* content.splitlines() still to draw
Canvas(lines) ==
  [left |-> lines, y_position |-> BodyTop, page |-> 1, font |-> "set",
   shown |-> 0, drawn |-> <<>>]

\* c.showPage(): a new page, on which no font is set
ShowPage ==
  /\ pc = "line"
  /\ out.left > 0
  /\ NeedsPage(out.y_position)
  /\ out' = [out EXCEPT !.page = @ + 1, !.shown = @ + 1, !.font = "unset"]
  /\ pc' = "setFont"
  /\ UNCHANGED <<cfgVars, loadVars, loopVars, diskVars, histVars, printed, result>>

\* c.setFont("Helvetica", 12); y_position = 750
SetFont ==
  /\ pc = "setFont"
  /\ out' = [out EXCEPT !.font = "set", !.y_position = PageTop]
  /\ pc' = "draw"
  /\ UNCHANGED <<cfgVars, loadVars, loopVars, diskVars, histVars, printed, result>>

\* c.drawString(50, y_position, line); y_position -= line_height
DrawString ==
  /\ \/ pc = "draw"
     \/ pc = "line" /\ out.left > 0 /\ ~ NeedsPage(out.y_position)
  /\ out' = [out EXCEPT
               !.drawn = Append(@, [page |-> out.page, y |-> out.y_position,
                                    font |-> out.font]),
               !.y_position = @ - LineHeight,
               !.left = @ - 1]
  /\ pc' = "line"
  /\ UNCHANGED <<cfgVars, loadVars, loopVars, diskVars, histVars, printed, result>>

\* c.save() after the last line
SavePdf ==
  /\ pc = "line"
  /\ out.left = 0
  /\ pc' = "done"
  /\ UNCHANGED <<cfgVars, loadVars, loopVars, diskVars, histVars, printed, result, out>>

(***************************************************************************)
(* FileSaver used on its own: save_attachment called several times with    *)
(* one destination folder, the loop of _get_unique_filename taken step by  *)
(* step, and save_email.  out is [calls, saved, cur, before, counter,      *)
(* path]: the finished save_attachment calls, the save_email calls,        *)
(* the call under way, the files on disk when it began, the counter of     *)
(* _get_unique_filename and the path it returned.                          *)
(***************************************************************************)
\* the folder_path the calls are given
SaverFolder == PathJoin(OutputDir, attachments)

\* raw_name = attachment.name or f"attachment_{id(attachment)}"
raw_name(att, id) ==
  IF att.name = None \/ att.name = <<>> THEN SyntheticName(id) ELSE att.name

\* base_name of save_attachment: sanitized_name.rsplit(".", 1)[0]
base_name(att, id) ==
  LET sanitized_name == sanitize_filename(raw_name(att, id))
      k == LastDot(sanitized_name)
  IN IF k > 0 THEN SubSeq(sanitized_name, 1, k - 1) ELSE sanitized_name

\* extension of save_attachment: the part after the last dot, else "bin"
extension(att, id) ==
  LET sanitized_name == sanitize_filename(raw_name(att, id))
      k == LastDot(sanitized_name)
  IN IF k > 0 THEN SubSeq(sanitized_name, k + 1, Len(sanitized_name)) ELSE bin

\* f"{base_name}.{extension}" and f"{base_name}_{counter}.{extension}"
Candidate(base, ext, counter) ==
  IF counter = 0 THEN base \o <<".">> \o ext
  ELSE base \o CounterSuffix(counter) \o <<".">> \o ext

\* file_path of _get_unique_filename in the call under way
CurrentCandidate ==
  Candidate(base_name(out.cur.att, out.cur.id), extension(out.cur.att, out.cur.id),
            out.counter)

\* a finished call: its arguments, the files on disk before and after it,
\* the name _get_unique_filename returned and how the call ended
Finished(c, before, after, path, outcome) ==
  [att |-> c.att, id |-> c.id, w |-> c.w, before |-> before, after |-> after,
   path |-> path, outcome |-> outcome]

\* save_attachment(attachment, folder_path) up to sanitized_name: reading
\* attachment.name raises in the try block and again in the handler
SaverCall(c) ==
  /\ pc = "saver"
  /\ IF c.att.name = Raises
     THEN /\ out' = [out EXCEPT
                       !.calls = Append(@, Finished(c, files, files, <<>>, "raised"))]
          /\ pc' = "saver"
     ELSE /\ out' = [out EXCEPT !.cur = c, !.before = files, !.counter = 0,
                                !.path = <<>>]
          /\ pc' = "unique"
  /\ UNCHANGED <<cfgVars, loadVars, loopVars, diskVars, histVars, printed, result>>

UniqueNextByTwo ==
  /\ pc = "unique"
  /\ PathExists(SaverFolder, CurrentCandidate)
  /\ out' = [out EXCEPT !.counter = @ + 2]
  /\ UNCHANGED <<cfgVars, loadVars, loopVars, diskVars, histVars, pc, printed, result>>

\* _get_unique_filename: os.path.exists(file_path) holds; counter = 1 after
\* the first test, counter += 1 after a later one
UniqueNext ==
  /\ pc = "unique"
  /\ PathExists(SaverFolder, CurrentCandidate)
  /\ out' = [out EXCEPT !.counter = @ + 1]
  /\ UNCHANGED <<cfgVars, loadVars, loopVars, diskVars, histVars, pc, printed, result>>

\* _get_unique_filename: not os.path.exists(file_path): return file_path
UniqueReturn ==
  /\ pc = "unique"
  /\ ~ PathExists(SaverFolder, CurrentCandidate)
  /\ out' = [out EXCEPT !.path = CurrentCandidate]
  /\ pc' = "write"
  /\ UNCHANGED <<cfgVars, loadVars, loopVars, diskVars, histVars, printed, result>>

\* how save_attachment ends after _get_unique_filename returned:
\* read_buffer raises, gives nothing, open() raises (always so when the
\* folder does not exist), or the payload is written
write_outcome(c) ==
  IF c.att.data = Raises THEN "caught"
  ELSE IF c.att.data = <<>> THEN "empty"
  ELSE IF NormDir(SaverFolder) \notin dirs \/ c.w # "ok" THEN "caught"
  ELSE "written"

\* attachment_data = attachment.read_buffer(); open(attachment_path, "wb");
\* attachment_file.write(attachment_data); the handlers print and return
SaverWrite ==
  /\ pc = "write"
  /\ LET c == out.cur
         opened == /\ c.att.data \notin {Raises, <<>>}
                   /\ NormDir(SaverFolder) \in dirs
                   /\ c.w # "open_raises"
     IN /\ files' = IF opened
                    THEN WriteFile(files, SaverFolder, out.path, Len(out.calls) + 1,
                                   "att", c.w = "ok")
                    ELSE files
        /\ out' = [out EXCEPT
                     !.calls = Append(@, Finished(c, out.before, files', out.path,
                                                  write_outcome(c)))]
  /\ pc' = "saver"
  /\ UNCHANGED <<cfgVars, loadVars, loopVars, dirs, histVars, printed, result>>


\* how save_email is called: by the tests and by main.py with the keyword
\* format=..., which the signature (email, folder_path, output_format="eml")
\* does not have, or with the format left to its default
SaveEmailCallers == {"test", "main", "default"}

\* the call raises TypeError before the body of save_email runs
UnexpectedKeyword(caller) == caller \in {"test", "main"}

\* FolderStructure.create_folder(folder_name), which main.py calls first:
\* the path it returns
create_folder(folder_name) == PathJoin(OutputDir, folder_name)

\* the folder_path argument of save_email
save_email_folder(caller, fp) == IF caller = "main" THEN create_folder(fp) ELSE fp

\* FileSaver.save_email(email, folder_path) for the format "eml", called
\* as the caller does
SaveEmail(caller, fp, e) ==
  /\ pc = "saver"
  /\ out.calls = <<>>
  /\ LET made == IF caller = "main" THEN dirs \cup MakeDirs(create_folder(fp)) ELSE dirs
         d == create_full_path(save_email_folder(caller, fp))
         r == IF UnexpectedKeyword(caller) THEN RaisedBeforeOpen ELSE fs_save_as_eml(e, d)
     IN /\ dirs' = IF UnexpectedKeyword(caller) THEN made ELSE made \cup MakeDirs(d)
        /\ files' = IF r.file = "none" THEN files
                    ELSE WriteFile(files, d, r.name, Len(out.saved) + 1, "fs_eml",
                                   r.file = "complete")
        /\ out' = [out EXCEPT
                     !.saved = Append(@, [caller |-> caller, folder_path |-> fp,
                                          email |-> e, written |-> r,
                                          dirs |-> dirs', files |-> files'])]
  /\ UNCHANGED <<cfgVars, loadVars, loopVars, histVars, pc, printed, result>>

(***************************************************************************)
(* _sanitize_filename on its own, applied to a file name and then to its    *)
(* result.  out is [filename, max_length, first, second].                  *)
(***************************************************************************)
\* _sanitize_filename applied to the file name
Sanitize ==
  /\ pc = "sanitize"
  /\ out' = [out EXCEPT !.first = sanitize_filename_max(out.filename, out.max_length)]
  /\ pc' = "again"
  /\ UNCHANGED <<cfgVars, loadVars, loopVars, diskVars, histVars, printed, result>>

\* _sanitize_filename applied to its own result
SanitizeAgain ==
  /\ pc = "again"
  /\ out' = [out EXCEPT !.second = sanitize_filename_max(out.first, out.max_length)]
  /\ pc' = "done"
  /\ UNCHANGED <<cfgVars, loadVars, loopVars, diskVars, histVars, printed, result>>

(***************************************************************************)
(* Initial states.                                                         *)
(***************************************************************************)
\* containers of at most maxF folders: every folder but the root has a
\* parent of a smaller index, a name, and each folder a message count
Trees(maxF, maxM, names) ==
  UNION {[n : {k}, parent : {p \in [1 .. k - 1 -> 0 .. k - 1] : \A g \in 1 .. k - 1 : p[g] < g},
          name : [1 .. k - 1 -> names], nmsgs : [0 .. k - 1 -> 0 .. maxM]] : k \in 1 .. maxF}

FolderNames == {None, <<"A">>, <<"/", "B">>, <<"C", "/">>}

T1 == [y |-> 2024, m |-> 3, d |-> 9, h |-> 8]

T2 == [y |-> 2024, m |-> 3, d |-> 9, h |-> 17]

T3 == [y |-> 2023, m |-> 12, d |-> 31, h |-> 8]

\* an attachment: its name, its payload, and whether get_attachment returns it
PlainAttachment == [name |-> <<"a", ".", "b">>, data |-> <<"x">>, gets |-> TRUE]

AttachmentKinds ==
  [name : {None, Raises, <<"a", ".", "b">>, <<"a">>}, data : {<<>>, <<"x">>}, gets : {TRUE}]
    \cup {[PlainAttachment EXCEPT !.data = Raises], [PlainAttachment EXCEPT !.gets = FALSE]}

\* the sequences over S of length at most n
RECURSIVE SeqsUpTo(_, _)
SeqsUpTo(S, n) ==
  IF n = 0 THEN {<<>>}
  ELSE LET T == SeqsUpTo(S, n - 1)
       IN T \cup {Append(t, x) : t \in T, x \in S}

PlainMessage ==
  [subject |-> <<"a">>, delivery_time |-> T1, creation_time |-> NoTime,
   number_of_attachments |-> 0, attachments |-> <<>>]

\* the messages of the containers an export run is given: a plain one, one
\* with the same date and the same cleaned subject and an attachment, one
\* whose subject cannot be read, one without subject, dates and a readable
\* attachment count
RunMessages ==
  {PlainMessage,
   [PlainMessage EXCEPT !.subject = <<"/", "a">>, !.delivery_time = T2,
                        !.number_of_attachments = 1,
                        !.attachments = <<PlainAttachment>>],
   [PlainMessage EXCEPT !.subject = Raises],
   [PlainMessage EXCEPT !.subject = None, !.delivery_time = NoTime,
                        !.number_of_attachments = RaisesCount]}

\* one folder "I" under the root, at most one message in the root and at
\* most MaxMsgs messages in all
RunTrees ==
  {t \in Trees(2, MaxMsgs, {<<"I">>}) :
     t.n = 2 /\ t.nmsgs[0] <= 1 /\ t.nmsgs[0] + t.nmsgs[1] <= MaxMsgs}

\* one folder "I" under the root, one message in it
OneMessageTree ==
  [n |-> 2, parent |-> <<0>>, name |-> <<<<"I">>>>, nmsgs |-> [f \in {0, 1} |-> f]]

pst_path == <<"m", ".", "p", "s", "t">>

InputPaths ==
  {pst_path, <<"m", ".", "P", "S", "T">>, <<"m", ".", "O", "s", "t">>,
   <<"m", ".", "t", "x", "t">>, <<"m", ".", "p", "s", "t", ".", "t">>, <<"m">>,
   <<".", "p", "s", "t">>, <<>>}

InitIdle ==
  /\ pst = "new"
  /\ opens = 0
  /\ stack = <<>>
  /\ returned = <<>>
  /\ idx = 1
  /\ attI = 0
  /\ processed = 0
  /\ fileSaver = FALSE
  /\ dirs = {}
  /\ files = {}
  /\ printed = <<>>
  /\ result = "none"
  /\ attempted = <<>>
  /\ failed = {}
  /\ counted = {}
  /\ attTried = <<>>

\* nothing was applied on its own
NoOut == <<>>

\* a newly constructed EmailProcessor: self.emails = []
InitFresh ==
  /\ InitIdle
  /\ out = NoOut
  /\ emails = <<>>
  /\ folder = <<>>

\* load_emails called on a newly constructed EmailProcessor
InitLoad ==
  /\ InitFresh
  /\ call = "load_emails"
  /\ pc = "load"
  /\ tree \in Trees(MaxFolders, MaxMsgs, FolderNames)
  /\ attr = [m \in Messages(tree) |-> PlainMessage]
  /\ input = [exists |-> TRUE, path |-> pst_path]
  /\ fmt = "eml"
  /\ dry_run = FALSE

\* process_emails called on a newly constructed EmailProcessor (class), or
\* the process_emails function of pst-exporter.py (script)
InitRun ==
  /\ InitFresh
  /\ call \in {"class", "script"}
  /\ pc = "start"
  /\ tree \in RunTrees
  /\ attr \in [Messages(tree) -> RunMessages]
  /\ input \in [exists : BOOLEAN, path : {pst_path}]
  /\ fmt \in {"eml", "pdf", "both"}
  /\ dry_run \in BOOLEAN

\* process_emails over the input paths, on a container of one message
InitInput ==
  /\ InitFresh
  /\ call \in {"class", "script"}
  /\ pc = "start"
  /\ tree = OneMessageTree
  /\ attr \in [Messages(tree) -> {m \in RunMessages : m.number_of_attachments = 1}]
  /\ input \in {i \in [exists : BOOLEAN, path : InputPaths] : i.path = <<>> => ~ i.exists}
  /\ fmt \in {"eml", "pdf", "both"}
  /\ dry_run \in BOOLEAN

\* process_emails on a container of one message with up to MaxAtt
\* attachments, or whose attachment count cannot be read
InitAttachments ==
  /\ InitFresh
  /\ call \in {"class", "script"}
  /\ pc = "start"
  /\ tree = OneMessageTree
  /\ \E atts \in SeqsUpTo(AttachmentKinds, MaxAtt), readable \in BOOLEAN :
       attr = [m \in Messages(tree) |->
                 [PlainMessage EXCEPT
                    !.number_of_attachments = IF readable THEN Len(atts) ELSE RaisesCount,
                    !.attachments = atts]]
  /\ input = [exists |-> TRUE, path |-> pst_path]
  /\ fmt \in {"eml", "pdf"}
  /\ dry_run \in BOOLEAN

\* subjects: up to MaxTail free characters, alone or after a run of "a"
\* that reaches the 50-character limit
SubjectChars == {"a", "/", " "}

Subjects ==
  {Repeat("a", k) \o t : k \in {0, SubjectLimit - 1, SubjectLimit},
                         t \in Texts(SubjectChars, MaxTail)}

\* one message, its subject drawn from Subjects or absent
InitNames ==
  /\ InitIdle
  /\ out = NoOut
  /\ call = "names"
  /\ pc = "names"
  /\ tree = OneMessageTree
  /\ emails = <<[message |-> <<1, 1>>, folder_path |-> <<"I">>]>>
  /\ folder = create_full_path(<<"I">>)
  /\ attr \in [Messages(tree) ->
                 [subject : Subjects \cup {None}, delivery_time : {T1, NoTime},
                  creation_time : {NoTime, T3}, number_of_attachments : {0},
                  attachments : {<<>>}]]
  /\ input = [exists |-> TRUE, path |-> pst_path]
  /\ fmt \in {"eml", "pdf", "both"}
  /\ dry_run = FALSE

HeaderLine(n, v) == [name |-> n, value |-> v]

\* transport_headers: absent, unparsable, and texts whose To, Cc, Bcc and
\* From lines come in several orders, one of them with an empty To value
HeaderKinds ==
  {[kind |-> k, lines |-> <<>>] : k \in {"missing", "none", "unparsable", "text"}}
    \cup {[kind |-> "text", lines |-> l] :
            l \in {<<HeaderLine("To", <<"a">>)>>,
                   <<HeaderLine("Cc", <<"b">>), HeaderLine("To", <<"a">>)>>,
                   <<HeaderLine("To", <<"a">>), HeaderLine("Bcc", <<"c">>),
                     HeaderLine("Cc", <<"b">>), HeaderLine("To", <<"d">>)>>,
                   <<HeaderLine("To", <<>>)>>,
                   <<HeaderLine("Bcc", <<"c">>)>>,
                   <<HeaderLine("From", <<"S", "<", "e", ">">>),
                     HeaderLine("To", <<"a">>)>>}}

\* messages in which each attribute is missing, holds no value, or holds one
RenderMessages ==
  [subject : {Missing, None, <<"a">>},
   sender_name : {Missing, None, <<"S">>},
   sender_email_address : {Missing, None, <<"e">>},
   transport_headers : HeaderKinds,
   display_to : {Missing, None, <<"D">>},
   plain_text_body : {Missing, None, <<"x">>},
   html_body : {Missing, None, <<"h">>},
   delivery_time : {T1}, creation_time : {NoTime},
   number_of_attachments : {0}, attachments : {<<>>}]

\* one loaded message and its folder, no writer called yet
InitRender ==
  /\ InitIdle
  /\ call = "render"
  /\ pc = "render"
  /\ tree = OneMessageTree
  /\ emails = <<[message |-> <<1, 1>>, folder_path |-> <<"I">>]>>
  /\ folder = create_full_path(<<"I">>)
  /\ attr \in [Messages(tree) -> RenderMessages]
  /\ input = [exists |-> TRUE, path |-> pst_path]
  /\ fmt = "both"
  /\ dry_run = FALSE
  /\ out = [eml |-> Idle, pdf |-> Idle, fs |-> Idle]

\* bytes of "A", of the UTF-8 forms of "ç", "Ã", "§" and "©", and a byte
\* no UTF-8 text holds
ByteAlphabet == {65, 131, 167, 169, 194, 195, 255}

\* one loaded message whose plain-text body is a byte sequence
InitDecode ==
  /\ InitIdle
  /\ call = "decode"
  /\ pc = "decode"
  /\ tree = OneMessageTree
  /\ emails = <<[message |-> <<1, 1>>, folder_path |-> <<"I">>]>>
  /\ folder = <<>>
  /\ \E b \in SeqsUpTo(ByteAlphabet, MaxBytes) :
       attr = [m \in Messages(tree) |->
                 [subject |-> <<"a">>, delivery_time |-> T1, creation_time |-> NoTime,
                  number_of_attachments |-> 0, attachments |-> <<>>,
                  plain_text_body |-> b]]
  /\ input = [exists |-> TRUE, path |-> pst_path]
  /\ fmt = "eml"
  /\ dry_run = FALSE
  /\ out = NoOut

\* what reading or formatting a time attribute may raise
TimeErrors ==
  {NoError} \cup
  {[at |-> "read", exc |-> x] : x \in {"AttributeError", "OSError"}} \cup
  {[at |-> "format", exc |-> x] : x \in {"AttributeError", "TypeError", "ValueError"}}

\* one loaded message: each time attribute present or absent, and raising
\* or not
InitDates ==
  /\ InitIdle
  /\ call = "format"
  /\ pc = "format"
  /\ tree = OneMessageTree
  /\ emails = <<[message |-> <<1, 1>>, folder_path |-> <<"I">>]>>
  /\ folder = <<>>
  /\ attr \in [Messages(tree) ->
                 [subject : {<<"a">>}, delivery_time : {NoTime, T1},
                  creation_time : {NoTime, T3}, delivery_raises : TimeErrors,
                  creation_raises : TimeErrors, number_of_attachments : {0},
                  attachments : {<<>>}]]
  /\ input = [exists |-> TRUE, path |-> pst_path]
  /\ fmt = "eml"
  /\ dry_run = FALSE
  /\ out = NoOut

\* save_as_pdf at its body loop, for a body of 0 .. MaxLines lines
InitPdf ==
  /\ InitIdle
  /\ call = "pdf"
  /\ pc = "line"
  /\ tree = OneMessageTree
  /\ emails = <<[message |-> <<1, 1>>, folder_path |-> <<"I">>]>>
  /\ folder = <<>>
  /\ attr = [m \in Messages(tree) |-> PlainMessage]
  /\ input = [exists |-> TRUE, path |-> pst_path]
  /\ fmt = "pdf"
  /\ dry_run = FALSE
  /\ out \in {Canvas(n) : n \in 0 .. MaxLines}

\* the object of the tests: only subject and plain_text_body
TestEmail ==
  [subject |-> <<"a">>, sender_name |-> Missing, sender_email_address |-> Missing,
   transport_headers |-> [kind |-> "missing", lines |-> <<>>],
   display_to |-> Missing, plain_text_body |-> <<"x">>, html_body |-> Missing,
   delivery_time |-> T1, creation_time |-> NoTime,
   number_of_attachments |-> 0, attachments |-> <<>>]

\* a loaded message with every attribute
LoadedEmail ==
  [TestEmail EXCEPT !.subject = <<"b">>, !.sender_name = <<"S">>,
                    !.sender_email_address = <<"e">>,
                    !.transport_headers = [kind |-> "text",
                                           lines |-> <<HeaderLine("To", <<"a">>)>>],
                    !.display_to = <<"D">>, !.html_body = <<"h">>]

\* folder paths: one level, and nested
SaveEmailFolders == {<<"e">>, <<"s", "/", "e">>}

\* the calls made: attachment, id(attachment) and how the write ends
SaverInput(name, data, id, w) ==
  [att |-> [name |-> name, data |-> data, gets |-> TRUE], id |-> id, w |-> w]

SaverInputs ==
  {SaverInput(<<"a", ".", "b">>, <<"x">>, 7, "ok"),
   SaverInput(<<"a", ".", "b">>, <<"y">>, 8, "ok"),
   SaverInput(<<".", "a", ".", "b", "/">>, <<"x">>, 7, "ok"),
   SaverInput(<<"a", "_", "1", ".", "b">>, <<"x">>, 7, "ok"),
   SaverInput(<<"a">>, <<"x">>, 7, "ok"),
   SaverInput(None, <<"x">>, 7, "ok"),
   SaverInput(Raises, <<"x">>, 7, "ok"),
   SaverInput(<<"a", ".", "b">>, <<>>, 7, "ok"),
   SaverInput(<<"a", ".", "b">>, Raises, 7, "ok"),
   SaverInput(<<"a", ".", "b">>, <<"x">>, 7, "open_raises"),
   SaverInput(<<"a", ".", "b">>, <<"x">>, 7, "write_raises")}

\* a FileSaver over the output directory; the destination folder exists or
\* does not, and holds no file
InitSaver ==
  /\ pst = "new"
  /\ opens = 0
  /\ stack = <<>>
  /\ returned = <<>>
  /\ idx = 1
  /\ attI = 0
  /\ processed = 0
  /\ fileSaver = TRUE
  /\ dirs \in {{OutputDir}, MakeDirs(SaverFolder)}
  /\ files = {}
  /\ printed = <<>>
  /\ result = "none"
  /\ attempted = <<>>
  /\ failed = {}
  /\ counted = {}
  /\ attTried = <<>>
  /\ call = "saver"
  /\ pc = "saver"
  /\ tree = OneMessageTree
  /\ emails = <<>>
  /\ folder = SaverFolder
  /\ attr = [m \in Messages(tree) |-> PlainMessage]
  /\ input = [exists |-> TRUE, path |-> pst_path]
  /\ fmt = "eml"
  /\ dry_run = FALSE
  /\ out = [calls |-> <<>>, saved |-> <<>>,
            cur |-> SaverInput(<<"a", ".", "b">>, <<"x">>, 7, "ok"),
            before |-> {}, counter |-> 0, path |-> <<>>]

\* load_emails called on a newly constructed EmailProcessor, for the
\* containers with at most one folder under the root
InitReload ==
  /\ InitFresh
  /\ call = "load_emails"
  /\ pc = "load"
  /\ tree \in Trees(2, MaxMsgs, {<<"I">>})
  /\ attr = [m \in Messages(tree) |-> PlainMessage]
  /\ input = [exists |-> TRUE, path |-> pst_path]
  /\ fmt = "eml"
  /\ dry_run = FALSE

\* file names: up to MaxTail free characters, alone or after a run of "a"
\* that reaches the default max_length
FileNameChars == {"a", "/", " ", "."}

FileNames ==
  {Repeat("a", k) \o t : k \in {0, FileNameLimit - 1, FileNameLimit},
                         t \in Texts(FileNameChars, MaxTail)}

\* values of max_length: the default, and small ones
MaxLengths == {1, 2, Len(unnamed_file), FileNameLimit}

\* _sanitize_filename about to be applied to a file name
InitSanitize ==
  /\ InitIdle
  /\ call = "sanitize"
  /\ pc = "sanitize"
  /\ tree = OneMessageTree
  /\ emails = <<>>
  /\ folder = <<>>
  /\ attr = [m \in Messages(tree) |-> PlainMessage]
  /\ input = [exists |-> TRUE, path |-> pst_path]
  /\ fmt = "eml"
  /\ dry_run = FALSE
  /\ out \in [filename : FileNames, max_length : MaxLengths, first : {<<>>},
              second : {<<>>}]

(***************************************************************************)
(* Specifications.                                                         *)
(***************************************************************************)
NextLoad ==
  \/ OpenPst
  \/ ExtractMessage
  \/ EnterSubFolder
  \/ ReturnFromFolder
  \/ ClosePst
  \/ LoadRaises

Next ==
  \/ Validate
  \/ MkRoot
  \/ OpenPst
  \/ ExtractMessage
  \/ EnterSubFolder
  \/ ReturnFromFolder
  \/ ClosePst
  \/ LoadRaises
  \/ OuterExcept
  \/ PreviewItem
  \/ PreviewDone
  \/ StartExport
  \/ CreateFullPath
  \/ SaveAsEml
  \/ SaveAsPdf
  \/ CheckAttachments
  \/ SaveAttachment
  \/ CountProcessed
  \/ ItemHandler
  \/ Summary

NextNames ==
  \/ ApplyPreview
  \/ ApplySave

\* an export run
Spec == InitRun /\ [][Next]_vars

\* an export run over the input paths
SpecInput == InitInput /\ [][Next]_vars

\* load_emails alone
SpecLoad == InitLoad /\ [][NextLoad]_vars

\* an export run of a message with attachments
SpecAttachments == InitAttachments /\ [][Next]_vars

\* the file names of one message
SpecNames == InitNames /\ [][NextNames]_vars

NextRender ==
  \/ RenderEml
  \/ RenderPdf
  \/ FsRenderEml

\* the writers applied to one message
SpecRender == InitRender /\ [][NextRender]_vars

NextDecode ==
  \/ DecodeBody

\* _decode_email_body alone
SpecDecode == InitDecode /\ [][NextDecode]_vars

NextDates ==
  \/ FormatDeliveryTime

\* _format_delivery_time alone
SpecDates == InitDates /\ [][NextDates]_vars

NextPdf ==
  \/ ShowPage
  \/ SetFont
  \/ DrawString
  \/ SavePdf

\* the body loop of save_as_pdf alone
SpecPdf == InitPdf /\ [][NextPdf]_vars

NextSaver ==
  \/ \E c \in SaverInputs :
       out.saved = <<>> /\ Len(out.calls) < MaxCalls /\ SaverCall(c)
  \/ \E caller \in SaveEmailCallers, fp \in SaveEmailFolders,
        e \in {TestEmail, LoadedEmail} :
       Len(out.saved) < MaxCalls /\ SaveEmail(caller, fp, e)
  \/ UniqueNext
  \/ UniqueReturn
  \/ SaverWrite

\* save_attachment called up to MaxCalls times on one FileSaver
SpecSaver == InitSaver /\ [][NextSaver]_vars

NextReload ==
  \/ NextLoad
  \/ LoadAgain

\* load_emails called up to MaxLoads times on one EmailProcessor
SpecReload == InitReload /\ [][NextReload]_vars

NextSanitize ==
  \/ Sanitize
  \/ SanitizeAgain

\* _sanitize_filename alone, applied twice
SpecSanitize == InitSanitize /\ [][NextSanitize]_vars

(***************************************************************************)
(* Properties.                                                             *)
(***************************************************************************)
Range(q) == {q[k] : k \in 1 .. Len(q)}

UpTo(n) == [k \in 1 .. n |-> k]

Kinds == Range(Formats(fmt))

\* base.ext with "_k" before the extension
WithSuffix(name, k) ==
  LET d == LastDot(name)
  IN SubSeq(name, 1, d - 1) \o CounterSuffix(k) \o SubSeq(name, d, Len(name))

SameTarget(a, b) ==
  /\ emails[a].folder_path = emails[b].folder_path
  /\ format_delivery_time(Message(a)) = format_delivery_time(Message(b))
  /\ clean_subject(Message(a).subject) = clean_subject(Message(b).subject)

\* C1: when two exported messages of one folder have the same date prefix
\* and the same sanitized subject, each format has two distinct files in the
\* folder: the first message's, and the second message's with "_1" before
\* the extension; the first message's file is not overwritten.
C1_SecondFileSuffixed ==
  \A a, b \in counted : \A k \in Kinds :
    (a < b /\ SameTarget(a, b)) =>
      /\ \E f \in files : f.owner = a /\ f.kind = k /\ f.name = file_name(Message(a), k)
      /\ \E f \in files : /\ f.owner = b
                          /\ f.kind = k
                          /\ f.name = WithSuffix(file_name(Message(a), k), 1)

\* C2: when the export of an item raised inside the loop, every item of the
\* loaded list has been attempted, in list order, by the end of the run, and
\* the run ended with its final summary.
C2_LaterItemsAttempted ==
  (pc = "done" /\ failed # {}) =>
    (attempted = UpTo(Len(emails)) /\ result = SummaryResult)

\* C3: for a message that reports n attachments and whose attachment loop
\* was entered, every index 0..n-1 is tried, in order, whichever earlier
\* attachments failed; no attachment failure makes the message's export
\* fail, and the message is counted as processed.
C3_EveryAttachmentTried ==
  \A k \in DOMAIN attTried :
    LET n == Message(k).number_of_attachments
    IN /\ k \notin failed
       /\ IF k = idx /\ pc = "att"
          THEN attI < n /\ attTried[k] = [i \in 1 .. attI |-> i - 1]
          ELSE attTried[k] = [i \in 1 .. n |-> i - 1]
       /\ k < idx => k \in counted
       /\ pc = "done" => k \in counted /\ result = "True"

\* a run over a message of two or more attachments, the first of which
\* failed, has ended
C3_Witness ==
  /\ pc = "done"
  /\ 1 \in DOMAIN attTried
  /\ Len(attTried[1]) >= 2
  /\ LET first == get_attachment(Message(1), 0)
     IN ~ first.gets \/ first.name = Raises \/ first.data = Raises \/ first.data = <<>>

RECURSIVE Preorder(_)
RECURSIVE PreorderAll(_)
\* the pre-order flattening of folder f: its own messages in index order,
\* then the flattening of each subfolder in subfolder index order
Preorder(f) ==
  [i \in 1 .. tree.nmsgs[f] |-> <<f, i>>] \o PreorderAll(SubFolders(f))

PreorderAll(fs) == IF fs = <<>> THEN <<>> ELSE Preorder(Head(fs)) \o PreorderAll(Tail(fs))

RECURSIVE SumMessages(_)
SumMessages(n) == IF n = 0 THEN 0 ELSE tree.nmsgs[n - 1] + SumMessages(n - 1)

\* C4: load_emails on a new EmailProcessor returns the pre-order flattening
\* of the folder tree; the number of returned items is the sum of
\* number_of_sub_messages over the folders, and no message appears twice or
\* is omitted.
C4_LoadReturnsPreorder ==
  (call = "load_emails" /\ pc = "done" /\ result = "True") =>
    /\ [k \in 1 .. Len(returned) |-> returned[k].message] = Preorder(0)
    /\ Len(returned) = SumMessages(tree.n)
    /\ \A a, b \in 1 .. Len(returned) : returned[a].message = returned[b].message => a = b
    /\ \A m \in Messages(tree) : \E a \in 1 .. Len(returned) : returned[a].message = m

\* load_emails returned for a root with messages and two subfolders with
\* messages
C4_Witness ==
  /\ call = "load_emails"
  /\ pc = "done"
  /\ result = "True"
  /\ tree.n = 3
  /\ tree.parent[2] = 0
  /\ \A f \in Folders : tree.nmsgs[f] >= 1

RECURSIVE AncestorNames(_)
\* the resolved names of the folders from below the root down to f
AncestorNames(f) ==
  IF f = 0 THEN <<>>
  ELSE Append(AncestorNames(tree.parent[f]),
              IF tree.name[f] = None THEN UnnamedFolder ELSE tree.name[f])

RECURSIVE SlashJoined(_)
\* "/".join(names)
SlashJoined(names) ==
  IF names = <<>> THEN <<>>
  ELSE IF Len(names) = 1 THEN names[1]
       ELSE names[1] \o <<Sep>> \o SlashJoined(Tail(names))

\* C5: the folder_path of every extracted item is the "/"-joined sequence
\* of the resolved names of the message's ancestor folders, from below the
\* root down to its parent folder, for all folder names.
C5_FolderPathIsJoinedNames ==
  \A k \in 1 .. Len(emails) :
    emails[k].folder_path = SlashJoined(AncestorNames(emails[k].message[1]))

\* C6: no exception leaves process_emails: a finished call has returned
\* True or False.
C6_NoExceptionEscapes ==
  pc = "done" => result \in {"True", "False"}

NothingProcessed ==
  /\ dirs = {}
  /\ files = {}
  /\ pst = "new"
  /\ opens = 0
  /\ emails = <<>>
  /\ attempted = <<>>
  /\ printed = <<>>
  /\ ~ fileSaver

\* the extension of the input path is .pst or .ost, compared
\* case-insensitively
HasArchiveExtension == LowerText(splitext(input.path)) \in {pst_ext, ost_ext}

C8_ErrorsReturnFalse ==
  (pc = "done" /\ failed # {}) => result # "True"

\* the preview ran to its end: the container was traversed and closed and
\* every previewed item was normalized
PreviewCompleted == pst = "closed" /\ idx > Min(Len(emails), PreviewLimit)

\* C9: a dry run changes nothing on disk: no output root, no folder, no
\* message file and no attachment is written and no FileSaver is
\* instantiated; a dry run that has traversed the container and previewed
\* its items returns True.
C9_DryRunChangesNothing ==
  dry_run =>
    /\ dirs = {}
    /\ files = {}
    /\ ~ fileSaver
    /\ attempted = <<>>
    /\ (pc = "done" /\ PreviewCompleted) => result = "True"

\* a dry run has previewed the items of the container and returned
C9_Witness ==
  /\ dry_run
  /\ pc = "done"
  /\ result = "True"
  /\ Len(emails) >= 2
  /\ Len(printed) >= 2

\* C10: for every format, the file name the preview prints for a message
\* is the file name save_as_eml / save_as_pdf creates for it.
C10_PreviewNameIsSavedName ==
  (printed # <<>> /\ files # {}) =>
    \A i \in 1 .. Len(printed) :
      \E f \in files : f.kind = Formats(fmt)[i] /\ f.name = printed[i].name

\* C11: for a message written in both formats, the From line and the To
\* line of the EML file equal the From line and the To line of the PDF.
C11_SameSenderAndRecipients ==
  (out.eml.file = "complete" /\ out.pdf.file = "complete") =>
    (out.eml.from = out.pdf.from /\ out.eml.to = out.pdf.to)

\* C12: whichever attributes of the message are missing or hold no value,
\* save_as_eml and save_as_pdf return without raising and leave a complete
\* file.
C12_WritersTolerateAbsence ==
  \A r \in {out.eml, out.pdf} :
    r.state # "idle" => (r.state = "returned" /\ r.file = "complete")

\* "[date] - no_subject.<kind>"
NoSubjectName(e, kind) ==
  format_delivery_time(e) \o <<" ", "-", " ">> \o no_subject \o Ext(kind)

\* C13: for a message without subject, the file name of each written file
\* uses "no_subject" and its Subject line is "Subject: No Subject".
C13_NoSubjectPlaceholders ==
  Message(idx).subject = None =>
    /\ out.eml.file = "complete" =>
         /\ out.eml.name = NoSubjectName(Message(idx), "eml")
         /\ out.eml.subject = SubjectLine(No_Subject)
    /\ out.pdf.file = "complete" =>
         /\ out.pdf.name = NoSubjectName(Message(idx), "pdf")
         /\ out.pdf.subject = SubjectLine(No_Subject)

\* the recipients the fallback chain yields: the To, then Cc, then Bcc
\* recipients of the parsed headers; without any, the display_to value;
\* without it, "Unknown Recipient"
ExpectedRecipients(e) ==
  LET h == e.transport_headers
      of(n) == IF h.kind = "text" THEN Truthy(get_all(h.lines, n)) ELSE <<>>
      all == of("To") \o of("Cc") \o of("Bcc")
  IN IF all # <<>> THEN all
     ELSE IF e.display_to \notin {Missing, None, <<>>} THEN <<e.display_to>>
          ELSE <<Unknown_Recipient>>

\* C14: the recipient list each EML writer (EmailProcessor.save_as_eml,
\* FileSaver._save_as_eml) built is not empty and is the list the fallback
\* chain yields.
C14_RecipientsByFallback ==
  \A r \in {out.eml, out.fs} :
    (r # Idle /\ r # RaisedBeforeOpen) =>
      (r.recipients # <<>> /\ r.recipients = ExpectedRecipients(Message(idx)))

\* a string: code points, none of the error marks
IsString(s) == \A k \in 1 .. Len(s) : s[k] >= 0 /\ s[k] <= 1114111

\* C15: for every byte sequence _decode_email_body returns a string and no
\* exception leaves it.
C15_DecodeIsTotal ==
  pc = "done" => (out # DecodeRaises /\ out # DecodeError /\ IsString(out))

\* a byte sequence that is not UTF-8 was decoded
C15_Witness ==
  /\ pc = "done"
  /\ utf_8(Message(idx).plain_text_body) = DecodeError
  /\ Len(out) = Len(Message(idx).plain_text_body)
  /\ Len(out) >= 2

\* the decoding under the first encoding of the list that decodes without
\* error, a UTF-8 decoding that holds one of the seven tell-tale sequences
\* counting as an error
RECURSIVE FirstDecoding(_, _)
FirstDecoding(b, encodings) ==
  IF encodings = <<>> THEN DecodeError
  ELSE LET decoded == decode(b, Head(encodings))
       IN IF \/ decoded = DecodeError
             \/ (Head(encodings) = "utf-8" /\ \E t \in RepairTellTales : Contains(decoded, t))
          THEN FirstDecoding(b, Tail(encodings))
          ELSE decoded

\* C16: for a body the double-encoding repair does not apply to, the result
\* is the decoding under the first encoding, in the listed order, that
\* decodes without error, where a UTF-8 decoding holding any of the seven
\* tell-tale sequences counts as a failure.
C16_FirstEncodingThatDecodes ==
  (pc = "done" /\ Repair(Message(idx).plain_text_body) = DecodeError) =>
    out = FirstDecoding(Message(idx).plain_text_body, encodings_to_try)

\* C17: _format_delivery_time never raises; when reading or formatting a
\* time attribute raised, the result is the prefix of the current date.
C17_FormatNeverRaises ==
  pc = "done" =>
    /\ out # Raises
    /\ FirstError(Message(idx)) # "none" => out = NowPrefix

\* "[YYYY-MM-DD]" of a time
DatePrefix(t) == <<"[">> \o strftime(t) \o <<"]">>

\* C18: when nothing raises, the prefix is the delivery time's date when
\* there is a delivery time, else the creation time's date when there is a
\* creation time, else the current date.
C18_DeliveryThenCreationThenNow ==
  LET e == Message(idx)
  IN (pc = "done" /\ e.delivery_raises = NoError /\ e.creation_raises = NoError) =>
       out = IF e.delivery_time # NoTime THEN DatePrefix(e.delivery_time)
             ELSE IF e.creation_time # NoTime THEN DatePrefix(e.creation_time)
             ELSE DatePrefix(Now)

\* a message without delivery time and with the creation time 2023-12-31
\* got the creation time's date
C18_Witness ==
  /\ pc = "done"
  /\ Message(idx).delivery_time = NoTime
  /\ Message(idx).creation_time = T3
  /\ Message(idx).delivery_raises = NoError
  /\ Message(idx).creation_raises = NoError
  /\ out = <<"[", "2", "0", "2", "3", "-", "1", "2", "-", "3", "1", "]">>

\* the export phase has begun: the export of an item was started
ExportStarted == attempted # <<>>

\* C19: the container is opened at most once in a run; when the export
\* phase begins it was opened once, every message of every folder was
\* collected and it was closed; nothing is written to disk while it is
\* open, and neither the container nor the collected list changes once the
\* export phase has begun.
C19_LoadThenExport ==
  /\ [](/\ opens <= 1
        /\ ExportStarted =>
             /\ opens = 1
             /\ pst = "closed"
             /\ stack = <<>>
             /\ [k \in 1 .. Len(emails) |-> emails[k].message] = Preorder(0))
  /\ [][pst = "open" => UNCHANGED <<dirs, files>>]_vars
  /\ [][ExportStarted => UNCHANGED <<pst, opens, stack, emails, returned>>]_vars

\* a run that loaded two or more messages and wrote files has ended
C19_Witness ==
  /\ pc = "done"
  /\ result = "True"
  /\ opens = 1
  /\ pst = "closed"
  /\ Len(emails) >= 2
  /\ Len(attempted) >= 2
  /\ files # {}

\* the folder_path extract_messages gives to the messages of folder g
RECURSIVE FolderPathOf(_)
FolderPathOf(g) ==
  IF g = 0 THEN <<>> ELSE SubFolderPath(FolderPathOf(tree.parent[g]), g)

\* C20: after a completed export in which no item failed, every folder of
\* the container has its directory under the output root, and every message
\* file lies in the directory of its message's folder.
C20_HierarchyReproduced ==
  (pc = "done" /\ result = "True" /\ ~ dry_run /\ failed = {}) =>
    /\ \A g \in Folders : NormDir(create_full_path(FolderPathOf(g))) \in dirs
    /\ \A f \in files :
         f.kind \in {"eml", "pdf"} =>
           f.dir = NormDir(create_full_path(emails[f.owner].folder_path))

\* C21: every body line is drawn at a y between 50 and 750; the first is at
\* 690 on the first page; a line on the page of the line before it is
\* exactly 14 lower, and it is on that page exactly when 14 lower is not
\* below 50; otherwise it is at 750 on the next page, with the font set
\* again; and no page break follows the last line.
C21_BodyLinePositions ==
  LET d == out.drawn
  IN /\ \A k \in 1 .. Len(d) : PageFloor <= d[k].y /\ d[k].y <= PageTop /\ d[k].font = "set"
     /\ d # <<>> => d[1].y = BodyTop /\ d[1].page = 1
     /\ \A k \in 2 .. Len(d) :
          IF d[k - 1].y - LineHeight >= PageFloor
          THEN d[k].page = d[k - 1].page /\ d[k].y = d[k - 1].y - LineHeight
          ELSE d[k].page = d[k - 1].page + 1 /\ d[k].y = PageTop
     /\ pc \in {"line", "done"} => out.shown = (IF d = <<>> THEN 0 ELSE d[Len(d)].page - 1)
     /\ pc = "done" => out.page = out.shown + 1

\* a body that filled the first and the second page was saved: its last
\* line of the second page is at 50, and a third page was begun
C21_Witness ==
  /\ pc = "done"
  /\ out.shown = 2
  /\ \E k \in 1 .. Len(out.drawn) : out.drawn[k].page = 2 /\ out.drawn[k].y = PageFloor

\* the part of a message file's name between "[YYYY-MM-DD] - " and the
\* extension
NameSubject(name) == SubSeq(name, 16, Len(name) - 4)

IsForbidden(c) == c \in InvalidChars

IsAllowed(c) == ~ IsForbidden(c)

\* t without its surrounding whitespace, by the positions of its first and
\* last character that is no whitespace
Trimmed(t) ==
  LET P == {k \in 1 .. Len(t) : t[k] \notin Whitespace}
  IN IF P = {} THEN <<>>
     ELSE SubSeq(t, CHOOSE k \in P : \A j \in P : k <= j,
                    CHOOSE k \in P : \A j \in P : j <= k)

\* the subject without forbidden characters, its first 50 characters,
\* trimmed
ExpectedSubject(subject) ==
  LET kept == SelectSeq(subject, IsAllowed)
  IN Trimmed(IF Len(kept) > SubjectLimit THEN SubSeq(kept, 1, SubjectLimit) ELSE kept)

\* C22: every file save_as_eml / save_as_pdf wrote for the message is named
\* "{date_prefix} - {S}.{ext}", where S is the subject without forbidden
\* characters, cut to 50 characters and then trimmed; S is the same for both
\* formats, holds no forbidden character, has at most 50 characters and
\* neither begins nor ends with whitespace.
C22_FileNameFromSubject ==
  LET e == Message(idx)
  IN \A f \in files :
       LET S == NameSubject(f.name)
       IN /\ f.name = DatePrefix(IF e.delivery_time # NoTime THEN e.delivery_time
                                 ELSE IF e.creation_time # NoTime THEN e.creation_time
                                 ELSE Now)
                        \o <<" ", "-", " ">> \o S \o
                        (IF f.kind = "eml" THEN <<".", "e", "m", "l">>
                         ELSE <<".", "p", "d", "f">>)
          /\ e.subject \notin {None, <<>>} => S = ExpectedSubject(e.subject)
          /\ \A g \in files : NameSubject(g.name) = S
          /\ \A k \in 1 .. Len(S) : ~ IsForbidden(S[k])
          /\ Len(S) <= SubjectLimit
          /\ S # <<>> => S[1] \notin Whitespace /\ S[Len(S)] \notin Whitespace

\* both files of a message were written whose subject holds a forbidden
\* character and, once that is removed, a space at the 50th place
C22_Witness ==
  /\ Cardinality(files) = 2
  /\ Message(idx).subject = Repeat("a", SubjectLimit - 1) \o <<"/", " ">>
  /\ \A f \in files : NameSubject(f.name) = Repeat("a", SubjectLimit - 1)

\* the name save_attachment is to give the file: the sanitized name, with
\* "bin" added when it has no extension
SanitizedAttachmentName(c) ==
  LET s == sanitize_filename(IF c.att.name \in {None, <<>>} THEN SyntheticName(c.id)
                             ELSE c.att.name)
  IN IF \E k \in 1 .. Len(s) : s[k] = "." THEN s ELSE s \o <<".">> \o bin

\* C23: a save_attachment call with a non-empty payload, whose write the
\* disk does not refuse, leaves every earlier file as it was and creates
\* exactly one new file, complete, in the destination folder; the file has
\* the sanitized name when no file had that name.
C23_AttachmentSaved ==
  \A k \in 1 .. Len(out.calls) :
    LET c == out.calls[k]
        new == c.after \ c.before
    IN (c.att.data \notin {Raises, <<>>} /\ c.w = "ok") =>
         /\ c.before \subseteq c.after
         /\ Cardinality(new) = 1
         /\ \A f \in new :
              /\ f.dir = NormDir(SaverFolder)
              /\ f.complete
              /\ FileAt(c.before, SaverFolder, SanitizedAttachmentName(c)) = {}
                   => f.name = SanitizedAttachmentName(c)

\* C24: every save_email call for the format "eml", as the tests and
\* main.py make it, for a message with subject S and a plain-text body,
\* leaves the directory base_directory/folder_path with all its parents and
\* in it a complete file "S.eml" whose body is the body text.
C24_SaveEmailCreatesFile ==
  \A k \in 1 .. Len(out.saved) :
    LET s == out.saved[k]
        d == PathJoin(OutputDir, s.folder_path)
    IN /\ MakeDirs(d) \subseteq s.dirs
       /\ \E f \in FileAt(s.files, d, s.email.subject \o <<".", "e", "m", "l">>) : f.complete
       /\ s.written.body = s.email.plain_text_body

\* base.ext for k = 0 and base_k.ext for k >= 1, for names with k < 10
NumberedName(base, ext, k) ==
  IF k = 0 THEN base \o <<".">> \o ext
  ELSE base \o <<"_", <<"0", "1", "2", "3", "4", "5", "6", "7", "8", "9">>[k + 1], ".">> \o ext

\* whether a file or a directory has the path folder/name
Taken(name) ==
  \/ \E f \in files : f.dir = NormDir(SaverFolder) /\ f.name = name
  \/ \E d \in dirs : d = NormDir(SaverFolder) \o <<Sep>> \o name

\* the first k calls were all made with the attachment name n and a
\* non-empty payload, and each wrote its file
SameNameWritten(n, k) ==
  \A j \in 1 .. k :
    /\ out.calls[j].att.name = n
    /\ out.calls[j].outcome = "written"

\* C25: the path _get_unique_filename returns is free; it is base.ext when
\* that is free and else base_k.ext for the smallest k >= 1 that is free;
\* nothing on disk changes while it runs; no call replaces a file that was
\* there before it; and the k-th of successive calls with one name that
\* wrote their payloads wrote base.ext for k = 1 and base_(k-1).ext after.
C25_UniqueNames ==
  /\ [](/\ pc = "write" =>
             LET b == base_name(out.cur.att, out.cur.id)
                 e == extension(out.cur.att, out.cur.id)
             IN /\ ~ Taken(out.path)
                /\ \E k \in 0 .. 9 :
                     /\ out.path = NumberedName(b, e, k)
                     /\ \A j \in 0 .. k - 1 : Taken(NumberedName(b, e, j))
        /\ \A k \in 1 .. Len(out.calls) :
             /\ out.calls[k].before \subseteq out.calls[k].after
             /\ SameNameWritten(<<"a", ".", "b">>, k) =>
                  out.calls[k].path = NumberedName(<<"a">>, <<"b">>, k - 1))
  /\ [][pc = "unique" => UNCHANGED <<dirs, files>>]_vars

\* three calls with the name a.b wrote a.b, a_1.b and a_2.b
C25_Witness ==
  /\ Len(out.calls) = 3
  /\ SameNameWritten(<<"a", ".", "b">>, 3)
  /\ out.calls[1].att.data # out.calls[2].att.data
  /\ {f.name : f \in files} =
       {<<"a", ".", "b">>, <<"a", "_", "1", ".", "b">>, <<"a", "_", "2", ".", "b">>}
  /\ \A f \in files : f.complete

\* the items whose export was started and did not end in the per-item
\* handler: folder creation and every requested writer returned
Completed == {attempted[k] : k \in 1 .. Len(attempted)} \ failed

\* C26: processed is always between 0 and the number of loaded items and
\* equals the number of distinct items counted; it never decreases and
\* grows by one at a time; no item's export is started twice; and the
\* count the summary reports is the number of items whose folder creation
\* and writers all returned, whatever happened to their attachments.
C26_ProcessedCount ==
  /\ [](/\ 0 <= processed
        /\ processed <= Len(emails)
        /\ processed = Cardinality(counted)
        /\ counted \cap failed = {}
        /\ \A j, k \in 1 .. Len(attempted) : attempted[j] = attempted[k] => j = k
        /\ (pc = "done" /\ result = "True" /\ ~ dry_run) =>
             processed = Cardinality(Completed))
  /\ [][processed' \in {processed, processed + 1}]_vars

\* a run ended in which one item failed, and another was counted although
\* none of its attachments was written
C26_Witness ==
  /\ pc = "done"
  /\ result = "True"
  /\ ~ dry_run
  /\ failed # {}
  /\ processed >= 1
  /\ \E i \in counted :
       /\ Message(i).number_of_attachments > 0
       /\ i \in DOMAIN attTried
       /\ attTried[i] # <<>>
       /\ \A f \in files : f.kind # "att"

\* C27: a load_emails call that follows another on the same EmailProcessor,
\* both having returned, returns the list the one before it returned, and
\* no message is in it twice.
C27_LoadRepeatable ==
  (call = "load_emails" /\ pc = "done" /\ result = "True" /\ opens >= 2
     /\ out.result = "True") =>
    /\ returned = out.returned
    /\ \A j, k \in 1 .. Len(returned) :
         returned[j].message = returned[k].message => j = k

\* C28: whenever load_emails has ended after opening the container, by
\* returning or by an exception, the container is closed.
C28_ClosedOnEveryPath ==
  (call = "load_emails" /\ pc = "done" /\ opens >= 1) => pst = "closed"

\* C29: after a run of process_emails, every message file in the output
\* tree belongs to an item that was counted as processed: an item whose
\* export raised has left no EML and no PDF file.
C29_AllOrNothing ==
  (pc = "done" /\ ~ dry_run) =>
    \A f \in files : f.kind \in {"eml", "pdf"} => f.owner \in counted

\* C30: for every file name and every max_length the result of
\* _sanitize_filename is not empty, holds no forbidden character, has at
\* most max_length characters and neither begins nor ends with a space or a
\* dot; and sanitizing the result gives the result again.
C30_SanitizedAndIdempotent ==
  LET r == out.first
  IN /\ pc \in {"again", "done"} =>
          /\ r # <<>>
          /\ \A k \in 1 .. Len(r) : r[k] \notin InvalidChars
          /\ Len(r) <= out.max_length
          /\ r[1] \notin {" ", "."}
          /\ r[Len(r)] \notin {" ", "."}
     /\ pc = "done" => out.second = out.first

====
